---- MODULE Spec2Model ----
(***************************************************************************)
(* A model of the CommonMark block parser of CommonMark/blocks.py.         *)
(*                                                                         *)
(* A string is a sequence of one-character strings, a line is a string     *)
(* without line ending.  The tree lives in  nodes,  a heap of node records *)
(* indexed by node id (the Document is node 1, Python's None is NoNode);   *)
(* the linked list first_child/last_child/prv/nxt of a node is kept as the *)
(* ordered sequence  children.   The other variables are the fields of the *)
(* Parser object.  One step of the model is one call of incorporate_line   *)
(* on the next input line, or the close-out loop that ends Parser.parse.   *)
(***************************************************************************)
EXTENDS Integers, Sequences, FiniteSets, TLC

\* ------------------------------------------------------------------------
\* Constants of the program and of the representation
\* ------------------------------------------------------------------------

CODE_INDENT == 4

\* Python's None, for a character, a dictionary entry or a node field.
None == "None"

\* Python's None for a node reference.
NoNode == 0

\* Python's None for a string (string_content after finalize, literal before).
NoneStr == <<None>>

\* The Document node created by Parser.parse.
Doc == 1

\* list_data['start'] of a bullet list (None in the source).
NoStart == 0 - 1

\* The backtick character, one character of a line like the others.
Backtick == "BACKTICK"

Digits == {"0", "1", "2", "3", "4", "5", "6", "7", "8", "9"}

UpperCase ==
  <<"A", "B", "C", "D", "E", "F", "G", "H", "I", "J", "K", "L", "M",
    "N", "O", "P", "Q", "R", "S", "T", "U", "V", "W", "X", "Y", "Z">>

LowerCase ==
  <<"a", "b", "c", "d", "e", "f", "g", "h", "i", "j", "k", "l", "m",
    "n", "o", "p", "q", "r", "s", "t", "u", "v", "w", "x", "y", "z">>

Letters == {UpperCase[i] : i \in 1..26} \cup {LowerCase[i] : i \in 1..26}

\* The characters the regular expression class \s matches.
WhiteSpace == {" ", "\t", "\n", "\r", "\f"}

\* re.IGNORECASE: the lower-case form of a character.
ToLower(c) ==
  IF \E i \in 1..26 : UpperCase[i] = c
  THEN LowerCase[CHOOSE i \in 1..26 : UpperCase[i] = c]
  ELSE c

\* ------------------------------------------------------------------------
\* Strings
\* ------------------------------------------------------------------------

\* peek(ln, pos): the character at the 0-based position pos, or None.
peek(ln, pos) == IF pos >= 0 /\ pos < Len(ln) THEN ln[pos + 1] ELSE None

\* ln[from:]
Slice(ln, from) ==
  IF from >= Len(ln) THEN <<>> ELSE SubSeq(ln, from + 1, Len(ln))

\* ln[0:to]
Prefix(ln, to) == IF to <= 0 THEN <<>> ELSE SubSeq(ln, 1, to)

\* The number of consecutive characters of s, from the 0-based position pos
\* on, that are in chars.
RECURSIVE RunLen(_, _, _)
RunLen(s, pos, chars) ==
  IF pos < Len(s) /\ s[pos + 1] \in chars
  THEN 1 + RunLen(s, pos + 1, chars)
  ELSE 0

\* Every character of s from the 0-based position pos on is in chars.
OnlyFrom(s, pos, chars) == \A i \in (pos + 1)..Len(s) : s[i] \in chars

\* The number of characters of s, counted back from its end, that are in
\* chars.
RECURSIVE TrailLen(_, _)
TrailLen(s, chars) ==
  IF Len(s) > 0 /\ s[Len(s)] \in chars
  THEN 1 + TrailLen(SubSeq(s, 1, Len(s) - 1), chars)
  ELSE 0

\* s starts, at the 0-based position pos, with the string w.
StartsAt(s, pos, w) ==
  /\ pos + Len(w) <= Len(s)
  /\ \A i \in 1..Len(w) : s[pos + i] = w[i]

\* The same, ignoring case (w is in lower case).
StartsAtCI(s, pos, w) ==
  /\ pos + Len(w) <= Len(s)
  /\ \A i \in 1..Len(w) : ToLower(s[pos + i]) = w[i]

\* re.search of a literal string.
Contains(s, w) == \E p \in 0..Len(s) : StartsAt(s, p, w)

\* is_blank(s): only space characters (reNonSpace finds nothing).
is_blank(s) == \A i \in 1..Len(s) : s[i] \in {" ", "\t", "\f", "\n", "\r"}

\* str.strip()
strip(s) ==
  LET lead == RunLen(s, 0, WhiteSpace)
      body == Slice(s, lead)
  IN Prefix(body, Len(body) - TrailLen(body, WhiteSpace))

\* str.index('\n'): the 0-based position of the first newline, -1 if none.
index_newline(s) ==
  IF \E i \in 1..Len(s) : s[i] = "\n"
  THEN (CHOOSE i \in 1..Len(s) : s[i] = "\n" /\ \A j \in 1..(i - 1) : s[j] # "\n") - 1
  ELSE 0 - 1

\* The value of a string of digits.
RECURSIVE int(_)
int(s) ==
  IF s = <<>> THEN 0
  ELSE 10 * int(SubSeq(s, 1, Len(s) - 1))
       + (CHOOSE d \in 0..9 : <<"0", "1", "2", "3", "4", "5", "6", "7", "8", "9">>[d + 1] = s[Len(s)])


\* ------------------------------------------------------------------------
\* The regular expressions of blocks.py, each as the predicate (and, where
\* the source uses it, the length of the match) it computes on a string.
\* ------------------------------------------------------------------------

\* reThematicBreak: three or more of one of the characters '*', '_', '-',
\* each followed by any number of spaces, and nothing else on the line.
reThematicBreak(s) ==
  /\ Len(s) > 0
  /\ s[1] \in {"*", "_", "-"}
  /\ OnlyFrom(s, 0, {s[1], " "})
  /\ Cardinality({i \in 1..Len(s) : s[i] = s[1]}) >= 3

\* reMaybeSpecial: the first character is one of # ~ * + _ = < > -, a
\* backtick or a digit
reMaybeSpecial(s) ==
  /\ Len(s) > 0
  /\ s[1] \in ({"#", Backtick, "~", "*", "+", "_", "=", "<", ">", "-"} \cup Digits)

\* reBulletListMarker: the first character is '*', '+' or '-'
reBulletListMarker(s) == Len(s) > 0 /\ s[1] \in {"*", "+", "-"}

\* reOrderedListMarker: one to nine digits, then '.' or ')': the length of
\* the match, 0 if none.
reOrderedListMarker(s) ==
  LET n == RunLen(s, 0, Digits)
  IN IF n >= 1 /\ n <= 9 /\ peek(s, n) \in {".", ")"} THEN n + 1 ELSE 0

\* reATXHeadingMarker: one to six '#', then spaces or the end of the string:
\* the length of the match, 0 if none.
reATXHeadingMarker(s) ==
  LET n == RunLen(s, 0, {"#"})
      k == RunLen(s, n, {" "})
  IN IF n >= 1 /\ n <= 6 /\ (k >= 1 \/ n = Len(s)) THEN n + k ELSE 0

\* reCodeFence: three or more backticks with no backtick after them, or three
\* or more tildes with no tilde after them: the length of the match, 0 if
\* none.
reCodeFence(s) ==
  LET c == peek(s, 0)
      n == RunLen(s, 0, {c})
  IN IF c \in {Backtick, "~"} /\ n >= 3 /\ \A i \in (n + 1)..Len(s) : s[i] # c
     THEN n
     ELSE 0

\* reClosingCodeFence: three or more backticks or three or more tildes,
\* followed only by spaces: the length of the run of fence characters, 0
\* if none.
reClosingCodeFence(s) ==
  LET c == peek(s, 0)
      n == RunLen(s, 0, {c})
  IN IF c \in {Backtick, "~"} /\ n >= 3 /\ OnlyFrom(s, n, {" "}) THEN n ELSE 0

\* reSetextHeadingLine: a run of '=' or a run of '-', then only spaces.
reSetextHeadingLine(s) ==
  LET c == peek(s, 0)
      n == RunLen(s, 0, {c})
  IN c \in {"=", "-"} /\ OnlyFrom(s, n, {" "})

\* The tag names of reHtmlBlockOpen[1] and reHtmlBlockClose[1].
HtmlTags1 ==
  { <<"s", "c", "r", "i", "p", "t">>,
    <<"p", "r", "e">>,
    <<"s", "t", "y", "l", "e">> }

\* The tag names of reHtmlBlockOpen[6].
HtmlTags6 ==
  { <<"a", "d", "d", "r", "e", "s", "s">>,
    <<"a", "r", "t", "i", "c", "l", "e">>,
    <<"a", "s", "i", "d", "e">>,
    <<"b", "a", "s", "e">>,
    <<"b", "a", "s", "e", "f", "o", "n", "t">>,
    <<"b", "l", "o", "c", "k", "q", "u", "o", "t", "e">>,
    <<"b", "o", "d", "y">>,
    <<"c", "a", "p", "t", "i", "o", "n">>,
    <<"c", "e", "n", "t", "e", "r">>,
    <<"c", "o", "l">>,
    <<"c", "o", "l", "g", "r", "o", "u", "p">>,
    <<"d", "d">>,
    <<"d", "e", "t", "a", "i", "l", "s">>,
    <<"d", "i", "a", "l", "o", "g">>,
    <<"d", "i", "r">>,
    <<"d", "i", "v">>,
    <<"d", "l">>,
    <<"d", "t">>,
    <<"f", "i", "e", "l", "d", "s", "e", "t">>,
    <<"f", "i", "g", "c", "a", "p", "t", "i", "o", "n">>,
    <<"f", "i", "g", "u", "r", "e">>,
    <<"f", "o", "o", "t", "e", "r">>,
    <<"f", "o", "r", "m">>,
    <<"f", "r", "a", "m", "e">>,
    <<"f", "r", "a", "m", "e", "s", "e", "t">>,
    <<"h", "1">>,
    <<"h", "e", "a", "d">>,
    <<"h", "e", "a", "d", "e", "r">>,
    <<"h", "r">>,
    <<"h", "t", "m", "l">>,
    <<"i", "f", "r", "a", "m", "e">>,
    <<"l", "e", "g", "e", "n", "d">>,
    <<"l", "i">>,
    <<"l", "i", "n", "k">>,
    <<"m", "a", "i", "n">>,
    <<"m", "e", "n", "u">>,
    <<"m", "e", "n", "u", "i", "t", "e", "m">>,
    <<"m", "e", "t", "a">>,
    <<"n", "a", "v">>,
    <<"n", "o", "f", "r", "a", "m", "e", "s">>,
    <<"o", "l">>,
    <<"o", "p", "t", "g", "r", "o", "u", "p">>,
    <<"o", "p", "t", "i", "o", "n">>,
    <<"p">>,
    <<"p", "a", "r", "a", "m">>,
    <<"s", "e", "c", "t", "i", "o", "n">>,
    <<"s", "o", "u", "r", "c", "e">>,
    <<"t", "i", "t", "l", "e">>,
    <<"s", "u", "m", "m", "a", "r", "y">>,
    <<"t", "a", "b", "l", "e">>,
    <<"t", "b", "o", "d", "y">>,
    <<"t", "d">>,
    <<"t", "f", "o", "o", "t">>,
    <<"t", "h">>,
    <<"t", "h", "e", "a", "d">>,
    <<"t", "r">>,
    <<"t", "r", "a", "c", "k">>,
    <<"u", "l">> }

\* TAGNAME of CommonMark.common (a letter, then letters, digits, '-'): the length of the
\* tag name of s at the 0-based position pos, 0 if there is none.
TagNameLen(s, pos) ==
  IF peek(s, pos) \in Letters
  THEN 1 + RunLen(s, pos + 1, Letters \cup Digits \cup {"-"})
  ELSE 0

\* The characters of an attribute name after its first, and the characters
\* that end an unquoted attribute value (with the control characters, of
\* which a line of the model has the tab and NUL only).
AttributeNameChars == Letters \cup Digits \cup {"_", ":", ".", "-"}
NotInUnquotedValue ==
  WhiteSpace \cup {"\"", "'", "=", "<", ">", Backtick, "NUL"}

\* The number of characters of s from the 0-based position pos on that are
\* not in chars.
RECURSIVE RunLenNot(_, _, _)
RunLenNot(s, pos, chars) ==
  IF pos < Len(s) /\ s[pos + 1] \notin chars
  THEN 1 + RunLenNot(s, pos + 1, chars)
  ELSE 0

\* ATTRIBUTEVALUESPEC of CommonMark.common at the position pos: white
\* space, '=', white space and an unquoted, single-quoted or double-quoted
\* value.  The position after it, pos itself if there is none.
AttributeValueEnd(s, pos) ==
  LET e == pos + RunLen(s, pos, WhiteSpace)
      v == e + 1 + RunLen(s, e + 1, WhiteSpace)
      q == peek(s, v)
      closing == v + 1 + RunLenNot(s, v + 1, {q})
      unquoted == RunLenNot(s, v, NotInUnquotedValue)
  IN IF peek(s, e) # "=" THEN pos
     ELSE IF q \in {"'", "\""}
     THEN IF peek(s, closing) = q THEN closing + 1 ELSE pos
     ELSE IF unquoted >= 1 THEN v + unquoted ELSE pos

\* ATTRIBUTE* of CommonMark.common from the position pos on: the position
\* after the last attribute.
RECURSIVE AttributesEnd(_, _)
AttributesEnd(s, pos) ==
  LET n == pos + RunLen(s, pos, WhiteSpace)
      name == n + 1 + RunLen(s, n + 1, AttributeNameChars)
  IN IF n > pos /\ peek(s, n) \in (Letters \cup {"_", ":"})
     THEN AttributesEnd(s, AttributeValueEnd(s, name))
     ELSE pos

\* OPENTAG of CommonMark.common followed by white space only: '<', a tag
\* name, attributes, white space, an optional '/', '>'.
OpenTagLine(s) ==
  LET n == TagNameLen(s, 1)
      a0 == AttributesEnd(s, 1 + n)
      a == a0 + RunLen(s, a0, WhiteSpace)
      b == IF peek(s, a) = "/" THEN a + 1 ELSE a
  IN /\ peek(s, 0) = "<"
     /\ n > 0
     /\ peek(s, b) = ">"
     /\ OnlyFrom(s, b + 1, WhiteSpace)

\* CLOSETAG of CommonMark.common followed by white space only: '</', a tag
\* name, white space, '>'.
CloseTagLine(s) ==
  LET n == TagNameLen(s, 2)
      a == 2 + n + RunLen(s, 2 + n, WhiteSpace)
  IN /\ StartsAt(s, 0, <<"<", "/">>)
     /\ n > 0
     /\ peek(s, a) = ">"
     /\ OnlyFrom(s, a + 1, WhiteSpace)

\* re.search(reHtmlBlockOpen[block_type], s)
reHtmlBlockOpen(block_type, s) ==
  CASE block_type = 1 ->
         \E w \in HtmlTags1 :
           /\ peek(s, 0) = "<"
           /\ StartsAtCI(s, 1, w)
           /\ peek(s, 1 + Len(w)) \in (WhiteSpace \cup {">", None})
    [] block_type = 2 -> StartsAt(s, 0, <<"<", "!", "-", "-">>)
    [] block_type = 3 -> StartsAt(s, 0, <<"<", "?">>)
    [] block_type = 4 ->
         /\ StartsAt(s, 0, <<"<", "!">>)
         /\ peek(s, 2) \in {UpperCase[i] : i \in 1..26}
    [] block_type = 5 ->
         StartsAt(s, 0, <<"<", "!", "[", "C", "D", "A", "T", "A", "[">>)
    [] block_type = 6 ->
         \E w \in HtmlTags6 :
           LET a == IF peek(s, 1) = "/" THEN 2 ELSE 1
               e == a + Len(w)
           IN /\ peek(s, 0) = "<"
              /\ StartsAtCI(s, a, w)
              /\ \/ peek(s, e) \in (WhiteSpace \cup {">", None})
                 \/ StartsAt(s, e, <<"/", ">">>)
    [] block_type = 7 -> OpenTagLine(s) \/ CloseTagLine(s)

\* re.search(reHtmlBlockClose[block_type], s), block_type in 1..5
reHtmlBlockClose(block_type, s) ==
  CASE block_type = 1 ->
         \E p \in 0..Len(s) : \E w \in HtmlTags1 :
           /\ StartsAt(s, p, <<"<", "/">>)
           /\ StartsAtCI(s, p + 2, w)
           /\ peek(s, p + 2 + Len(w)) = ">"
    [] block_type = 2 -> Contains(s, <<"-", "-", ">">>)
    [] block_type = 3 -> Contains(s, <<"?", ">">>)
    [] block_type = 4 -> Contains(s, <<">">>)
    [] block_type = 5 -> Contains(s, <<"]", "]", ">">>)

\* re.sub of the pattern 'one or more groups of a newline and any number of
\* spaces, up to the end' in CodeBlock.finalize and HtmlBlock.finalize:
\* the leftmost run of newlines and spaces that starts with a newline and
\* reaches the end of s is replaced by repl.
RECURSIVE TrailingBlankStart(_, _)
TrailingBlankStart(s, p) ==
  \* the least 0-based position q >= p with s[q] a newline and only
  \* newlines and spaces after it; Len(s) if there is none
  IF p >= Len(s) THEN Len(s)
  ELSE IF s[p + 1] = "\n" /\ OnlyFrom(s, p, {"\n", " "}) THEN p
  ELSE TrailingBlankStart(s, p + 1)

sub_trailing_blank(repl, s) ==
  LET q == TrailingBlankStart(s, 0)
  IN IF q < Len(s) THEN Prefix(s, q) \o repl ELSE s

\* The string_content of an ATX heading:
\* first a string of only spaces, '#'s and spaces becomes empty, then a
\* trailing run of spaces, '#'s and optional spaces is removed.
atx_content(s) ==
  LET lead == RunLen(s, 0, {" "})
      h == RunLen(s, lead, {"#"})
      inner == IF h >= 1 /\ OnlyFrom(s, lead + h, {" "}) THEN <<>> ELSE s
      t == Prefix(inner, Len(inner) - TrailLen(inner, {" "}))
      u == Prefix(t, Len(t) - TrailLen(t, {"#"}))
      v == Prefix(u, Len(u) - TrailLen(u, {" "}))
  IN IF Len(t) > Len(u) /\ Len(u) > Len(v) THEN v ELSE inner


\* ------------------------------------------------------------------------
\* Nodes (CommonMark.node.Node) and the tree
\* ------------------------------------------------------------------------

\* The list_data of a node that is no List and no Item: an empty dictionary,
\* whose .get() answers None.
NoListData ==
  [type |-> None, tight |-> TRUE, bullet_char |-> None, start |-> NoStart,
   delimiter |-> None, padding |-> 0, marker_offset |-> 0]

\* Node(node_type, sourcepos).  nfin counts the calls of Parser.finalize on
\* the node; it is not a field of the program.
Node(node_type, sourcepos) ==
  [t |-> node_type, parent |-> NoNode, children |-> <<>>, is_open |-> TRUE,
   last_line_blank |-> FALSE, sourcepos |-> sourcepos,
   string_content |-> <<>>, literal |-> NoneStr, info |-> NoneStr,
   level |-> 0, list_data |-> NoListData, is_fenced |-> FALSE,
   fence_char |-> None, fence_length |-> 0, fence_offset |-> 0,
   html_block_type |-> 0, nfin |-> 0]

first_child(nodes, n) ==
  IF nodes[n].children = <<>> THEN NoNode ELSE nodes[n].children[1]

last_child(nodes, n) ==
  IF nodes[n].children = <<>>
  THEN NoNode
  ELSE nodes[n].children[Len(nodes[n].children)]

\* The position of n among the children of its parent.
child_index(nodes, n) ==
  LET ch == nodes[nodes[n].parent].children
  IN CHOOSE i \in 1..Len(ch) : ch[i] = n

\* node.nxt: the following sibling.
nxt(nodes, n) ==
  IF nodes[n].parent = NoNode THEN NoNode
  ELSE LET ch == nodes[nodes[n].parent].children
           i == child_index(nodes, n)
       IN IF i < Len(ch) THEN ch[i + 1] ELSE NoNode

\* Node.unlink
unlink(nodes, n) ==
  LET p == nodes[n].parent
  IN IF p = NoNode THEN nodes
     ELSE LET ch == nodes[p].children
              i == child_index(nodes, n)
          IN [nodes EXCEPT ![p].children =
                             SubSeq(ch, 1, i - 1) \o SubSeq(ch, i + 1, Len(ch)),
                           ![n].parent = NoNode]

\* Node.append_child
append_child(nodes, p, child) ==
  LET n1 == unlink(nodes, child)
  IN [n1 EXCEPT ![child].parent = p,
                ![p].children = Append(n1[p].children, child)]

\* Node.insert_after: sibling becomes the sibling that follows n.
insert_after(nodes, n, sibling) ==
  LET n1 == unlink(nodes, sibling)
      p == n1[n].parent
      ch == n1[p].children
      i == child_index(n1, n)
  IN [n1 EXCEPT ![sibling].parent = p,
                ![p].children =
                  SubSeq(ch, 1, i) \o <<sibling>> \o SubSeq(ch, i + 1, Len(ch))]

\* ends_with_blank_line(block)
RECURSIVE ends_with_blank_line(_, _)
ends_with_blank_line(nodes, block) ==
  IF block = NoNode THEN FALSE
  ELSE IF nodes[block].last_line_blank THEN TRUE
  ELSE IF nodes[block].t = "List" \/ nodes[block].t = "Item"
       THEN ends_with_blank_line(nodes, last_child(nodes, block))
       ELSE FALSE

\* A faulty lists_match, which does not compare the bullet characters.
lists_match_any_bullet(list_data, item_data) ==
  /\ list_data.type = item_data.type
  /\ list_data.delimiter = item_data.delimiter

\* lists_match(list_data, item_data)
lists_match(list_data, item_data) ==
  /\ list_data.type = item_data.type
  /\ list_data.delimiter = item_data.delimiter
  /\ list_data.bullet_char = item_data.bullet_char

\* The accepts_lines of the block classes.
accepts_lines(t) == t \in {"CodeBlock", "HtmlBlock", "Paragraph"}

\* A faulty can_contain, in which List.can_contain answers True to every
\* tag: a List then takes a block that is not an Item.
can_contain_list_takes_all(parent, t) ==
  CASE parent \in {"Document", "BlockQuote", "Item"} -> t # "Item"
    [] parent = "List" -> TRUE
    [] OTHER -> FALSE

\* A faulty can_contain, in which no class answers True to Item: nothing
\* can contain an item.
can_contain_no_item(parent, t) ==
  parent \in {"Document", "BlockQuote", "Item"} /\ t # "Item"

\* The can_contain of the block class named parent, applied to the tag t.
can_contain(parent, t) ==
  CASE parent = "Document" -> t # "Item"
    [] parent = "List" -> t = "Item"
    [] parent = "BlockQuote" -> t # "Item"
    [] parent = "Item" -> t # "Item"
    [] OTHER -> FALSE

\* ------------------------------------------------------------------------
\* The cursor of the Parser.  In what follows s is the state of the parser:
\* the fields of the Parser object, the heap nodes, and ev, the record of
\* what the current call of incorporate_line has done so far.
\* ------------------------------------------------------------------------

RECURSIVE ScanSpaces(_, _, _)
ScanSpaces(ln, i, cols) ==
  LET c == peek(ln, i)
  IN IF c = " " THEN ScanSpaces(ln, i + 1, cols + 1)
     ELSE IF c = "\t" THEN ScanSpaces(ln, i + 1, cols + (4 - (cols % 4)))
     ELSE <<i, cols>>

\* A faulty find_next_nonspace, which sets blank on a blank line and never
\* clears it: what an earlier line, or an earlier call of parse, has left in
\* blank decides for the lines that follow.
find_next_nonspace_sticky_blank(s) ==
  LET r == ScanSpaces(s.current_line, s.offset, s.column)
      c == peek(s.current_line, r[1])
  IN [s EXCEPT !.blank = @ \/ (c = "\n" \/ c = "\r" \/ c = None),
               !.next_nonspace = r[1],
               !.next_nonspace_column = r[2],
               !.indent = r[2] - s.column,
               !.indented = (r[2] - s.column) >= CODE_INDENT]

find_next_nonspace(s) ==
  LET r == ScanSpaces(s.current_line, s.offset, s.column)
      c == peek(s.current_line, r[1])
  IN [s EXCEPT !.blank = (c = "\n" \/ c = "\r" \/ c = None),
               !.next_nonspace = r[1],
               !.next_nonspace_column = r[2],
               !.indent = r[2] - s.column,
               !.indented = (r[2] - s.column) >= CODE_INDENT]

advance_next_nonspace(s) ==
  [s EXCEPT !.offset = s.next_nonspace, !.column = s.next_nonspace_column]

RECURSIVE advance_offset(_, _, _)
advance_offset(s, count, columns) ==
  LET c == peek(s.current_line, s.offset)
  IN IF count > 0 /\ c # None
     THEN IF c = "\t"
          THEN LET chars_to_tab == 4 - (s.column % 4)
               IN advance_offset(
                    [s EXCEPT !.column = @ + chars_to_tab, !.offset = @ + 1],
                    count - (IF columns THEN chars_to_tab ELSE 1), columns)
          ELSE advance_offset(
                 [s EXCEPT !.offset = @ + 1, !.column = @ + 1],
                 count - 1, columns)
     ELSE s

\* The loop of parse_list_marker that steps over the spaces after the marker.
RECURSIVE marker_spaces(_, _)
marker_spaces(s, spaces_start_col) ==
  LET s1 == advance_offset(s, 1, TRUE)
      nextc == peek(s1.current_line, s1.offset)
  IN IF s1.column - spaces_start_col < 5 /\ (nextc = " " \/ nextc = "\t")
     THEN marker_spaces(s1, spaces_start_col)
     ELSE s1

\* parse_list_marker(parser): [ok, data, s], ok false for the result None.
parse_list_marker(s) ==
  LET rest == Slice(s.current_line, s.next_nonspace)
      m == reBulletListMarker(rest)
      matched(m2) ==
        LET mlen == IF m THEN 1 ELSE m2
            data == [type |-> IF m THEN "Bullet" ELSE "Ordered",
                     tight |-> TRUE,
                     bullet_char |-> IF m THEN rest[1] ELSE None,
                     start |-> IF m THEN NoStart
                               ELSE int(Prefix(rest, m2 - 1)),
                     delimiter |-> IF m THEN None ELSE rest[m2],
                     padding |-> 0,
                     marker_offset |-> s.indent]
            nextc == peek(s.current_line, s.next_nonspace + mlen)
            padded(s1, s2) ==
              LET spaces_start_col == s1.column
                  spaces_start_offset == s1.offset
                  blank_item == peek(s2.current_line, s2.offset) = None
                  spaces_after_marker == s2.column - spaces_start_col
                  s3 == [s2 EXCEPT !.column = spaces_start_col,
                                   !.offset = spaces_start_offset]
              IN IF \/ spaces_after_marker >= 5
                    \/ spaces_after_marker < 1
                    \/ blank_item
                 THEN [ok |-> TRUE,
                       data |-> [data EXCEPT !.padding = mlen + 1],
                       s |-> IF peek(s3.current_line, s3.offset) = " "
                             THEN advance_offset(s3, 1, TRUE)
                             ELSE s3]
                 ELSE [ok |-> TRUE,
                       data |-> [data EXCEPT
                                   !.padding = mlen + spaces_after_marker],
                       s |-> s2]
            at_marker_end(s1) == padded(s1, marker_spaces(s1, s1.column))
        IN IF ~m /\ m2 = 0 THEN [ok |-> FALSE, data |-> NoListData, s |-> s]
           ELSE IF ~(nextc = None \/ nextc = "\t" \/ nextc = " ")
           THEN [ok |-> FALSE, data |-> NoListData, s |-> s]
           ELSE at_marker_end(advance_offset(advance_next_nonspace(s), mlen,
                                             TRUE))
  IN matched(reOrderedListMarker(rest))


\* ------------------------------------------------------------------------
\* Finalizing blocks
\* ------------------------------------------------------------------------

\* InlineParser.parseReference(s, refmap) for a definition of the form
\* [label]: destination, alone on its line: the number of characters of the
\* definition, 0 if s does not start with one.
parseReference(sc) ==
  LET lab == RunLen(sc, 1, {sc[i] : i \in 1..Len(sc)} \ {"]", "\n"})
      a == 1 + lab
      b == a + 2 + RunLen(sc, a + 2, {" "})
      dest == RunLen(sc, b, {sc[i] : i \in 1..Len(sc)} \ {" ", "\n"})
      c == b + dest + RunLen(sc, b + dest, {" "})
  IN IF /\ peek(sc, 0) = "["
        /\ lab >= 1
        /\ StartsAt(sc, a, <<"]", ":">>)
        /\ dest >= 1
        /\ peek(sc, c) \in {"\n", None}
     THEN IF peek(sc, c) = "\n" THEN c + 1 ELSE c
     ELSE 0

\* The label of the definition parseReference finds at the start of sc.
reference_label(sc) == SubSeq(sc, 2, 1 + RunLen(sc, 1, {sc[i] : i \in 1..Len(sc)} \ {"]", "\n"}))

\* The loop of Paragraph.finalize: [string_content, refmap,
\* has_reference_defs] once no further definition can be taken from the
\* front.
RECURSIVE strip_references(_, _, _)
strip_references(sc, refmap, has_reference_defs) ==
  LET parsed(pos) ==
        IF pos = 0
        THEN [string_content |-> sc, refmap |-> refmap,
              has_reference_defs |-> has_reference_defs]
        ELSE strip_references(Slice(sc, pos),
                              refmap \cup {reference_label(sc)}, TRUE)
  IN IF peek(sc, 0) = "["
     THEN parsed(parseReference(sc))
     ELSE [string_content |-> sc, refmap |-> refmap,
           has_reference_defs |-> has_reference_defs]

\* The inner loop of List.finalize: some child of item, from subitem on,
\* ends with a blank line and is followed by something.
RECURSIVE loose_subitem(_, _, _)
loose_subitem(nodes, item, subitem) ==
  IF subitem = NoNode THEN FALSE
  ELSE IF /\ ends_with_blank_line(nodes, subitem)
          /\ (nxt(nodes, item) # NoNode \/ nxt(nodes, subitem) # NoNode)
       THEN TRUE
       ELSE loose_subitem(nodes, item, nxt(nodes, subitem))

\* A faulty outer loop of List.finalize, which does not ask whether the item
\* that ends with a blank line has a next item.
RECURSIVE loose_item_without_nxt(_, _)
loose_item_without_nxt(nodes, item) ==
  IF item = NoNode THEN FALSE
  ELSE IF ends_with_blank_line(nodes, item)
       THEN TRUE
       ELSE \/ loose_subitem(nodes, item, first_child(nodes, item))
            \/ loose_item_without_nxt(nodes, nxt(nodes, item))

\* The outer loop of List.finalize: the list is found loose from item on.
RECURSIVE loose_item(_, _)
loose_item(nodes, item) ==
  IF item = NoNode THEN FALSE
  ELSE IF ends_with_blank_line(nodes, item) /\ nxt(nodes, item) # NoNode
       THEN TRUE
       ELSE \/ loose_subitem(nodes, item, first_child(nodes, item))
            \/ loose_item(nodes, nxt(nodes, item))

List_finalize(s, block) ==
  IF loose_item(s.nodes, first_child(s.nodes, block))
  THEN [s EXCEPT !.nodes[block].list_data.tight = FALSE]
  ELSE s

\* unescape_string of CommonMark.common, for its backslash escapes: a
\* backslash before a punctuation character is dropped.
RECURSIVE unescape_string(_)
unescape_string(str) ==
  IF str = <<>> THEN <<>>
  ELSE IF /\ str[1] = "\\"
          /\ Len(str) > 1
          /\ str[2] \notin (Letters \cup Digits \cup WhiteSpace)
       THEN <<str[2]>> \o unescape_string(Slice(str, 2))
       ELSE <<str[1]>> \o unescape_string(Slice(str, 1))

CodeBlock_finalize(s, block) ==
  LET content == s.nodes[block].string_content
      newline_pos == index_newline(content)
      first_line == Prefix(content, newline_pos)
      rest == Slice(content, newline_pos + 1)
  IN IF s.nodes[block].is_fenced /\ newline_pos < 0
     THEN [s EXCEPT !.ev.raised = TRUE]
     ELSE IF s.nodes[block].is_fenced
     THEN [s EXCEPT !.nodes[block].info = unescape_string(strip(first_line)),
                    !.nodes[block].literal = rest,
                    !.nodes[block].string_content = NoneStr]
     ELSE [s EXCEPT !.nodes[block].literal =
                      sub_trailing_blank(<<"\n">>, content),
                    !.nodes[block].string_content = NoneStr]

HtmlBlock_finalize(s, block) ==
  LET fixme == /\ s.nodes[block].string_content =
                    <<"<", "d", "i", "v", ">", "\n">>
               /\ s.nodes[block].sourcepos = <<<<1, 3>>, <<1, 7>>>>
      content == IF fixme
                 THEN <<"\n", "<", "d", "i", "v", ">">>
                 ELSE s.nodes[block].string_content
  IN [s EXCEPT !.nodes[block].literal = sub_trailing_blank(<<>>, content),
               !.nodes[block].string_content = NoneStr]

\* A faulty Paragraph.finalize, which unlinks the paragraph as soon as a
\* definition was taken from it, blank or not.
Paragraph_finalize_any_reference(s, block) ==
  LET stripped(r) ==
        LET s1 == [s EXCEPT !.nodes[block].string_content = r.string_content,
                            !.refmap = r.refmap]
        IN IF r.has_reference_defs
           THEN [s1 EXCEPT !.nodes = unlink(s1.nodes, block)]
           ELSE s1
  IN stripped(strip_references(s.nodes[block].string_content, s.refmap,
                               FALSE))

Paragraph_finalize(s, block) ==
  LET stripped(r) ==
        LET s1 == [s EXCEPT !.nodes[block].string_content = r.string_content,
                            !.refmap = r.refmap]
        IN IF r.has_reference_defs /\ is_blank(r.string_content)
           THEN [s1 EXCEPT !.nodes = unlink(s1.nodes, block)]
           ELSE s1
  IN stripped(strip_references(s.nodes[block].string_content, s.refmap,
                               FALSE))

\* block_class.finalize(self, block) for the class of the block.
block_finalize(s, block) ==
  CASE s.nodes[block].t = "List" -> List_finalize(s, block)
    [] s.nodes[block].t = "CodeBlock" -> CodeBlock_finalize(s, block)
    [] s.nodes[block].t = "HtmlBlock" -> HtmlBlock_finalize(s, block)
    [] s.nodes[block].t = "Paragraph" -> Paragraph_finalize(s, block)
    [] OTHER -> s

\* Parser.finalize(block, line_number)
finalize(s, block, line_number) ==
  LET above == s.nodes[block].parent
      s1 == [s EXCEPT !.nodes[block].is_open = FALSE,
                      !.nodes[block].sourcepos[2] =
                        <<line_number, s.last_line_length>>,
                      !.nodes[block].nfin = @ + 1,
                      !.ev.closed = Append(@, block),
                      !.ev.tips = Append(@, above)]
      finalized(f) == IF f.ev.raised THEN f ELSE [f EXCEPT !.tip = above]
  IN IF s.ev.raised THEN s ELSE finalized(block_finalize(s1, block))

\* Parser.break_out_of_lists: the outermost List among b and its ancestors.
RECURSIVE highest_list(_, _, _)
highest_list(nodes, b, last_list) ==
  LET ll == IF nodes[b].t = "List" THEN b ELSE last_list
  IN IF nodes[b].parent = NoNode THEN ll
     ELSE highest_list(nodes, nodes[b].parent, ll)

\* The loop of break_out_of_lists that finalizes block and its ancestors
\* below last_list.
RECURSIVE finalize_up_to(_, _, _)
finalize_up_to(s, block, last_list) ==
  LET up(s1) == IF s1.ev.raised
                THEN s1
                ELSE finalize_up_to(s1, s1.nodes[block].parent, last_list)
  IN IF block # last_list
     THEN up(finalize(s, block, s.line_number))
     ELSE s

\* A faulty break_out_of_lists, whose loop finalizes the blocks below the
\* highest list and which then leaves that list open.
break_out_of_lists_below(s, block) ==
  LET last_list == highest_list(s.nodes, block, NoNode)
  IN IF last_list # NoNode
     THEN [finalize_up_to(s, block, last_list) EXCEPT !.ev.broke = TRUE]
     ELSE s

break_out_of_lists(s, block) ==
  LET last_list == highest_list(s.nodes, block, NoNode)
      out(s2) == [s2 EXCEPT !.tip = s2.nodes[last_list].parent,
                            !.ev.broke = TRUE]
      close_list(s1) == out(finalize(s1, last_list, s1.line_number))
  IN IF last_list # NoNode
     THEN close_list(finalize_up_to(s, block, last_list))
     ELSE s

\* Parser.add_line
add_line(s) ==
  [s EXCEPT !.nodes[s.tip].string_content =
              @ \o Slice(s.current_line, s.offset) \o <<"\n">>,
            !.ev.lines_to = Append(@, s.tip)]

\* The loop of add_child: finalize the tip until it can contain tag.
RECURSIVE close_until_can_contain(_, _)
close_until_can_contain(s, tag) ==
  IF s.ev.raised THEN s
  ELSE IF s.tip = NoNode THEN [s EXCEPT !.ev.raised = TRUE]
  ELSE IF ~can_contain(s.nodes[s.tip].t, tag)
  THEN close_until_can_contain(finalize(s, s.tip, s.line_number - 1), tag)
  ELSE s

\* Parser.add_child(tag, offset); the new block is the tip of the result.
add_child(s, tag, offset) ==
  LET link(s1) ==
        LET new_block == Len(s1.nodes) + 1
            node == Node(tag, <<<<s1.line_number, offset + 1>>, <<0, 0>>>>)
        IN IF s1.ev.raised
           THEN s1
           ELSE [s1 EXCEPT !.nodes = append_child(Append(s1.nodes, node),
                                                  s1.tip, new_block),
                           !.tip = new_block]
  IN link(close_until_can_contain(s, tag))

\* The loop of close_unmatched_blocks.
RECURSIVE close_oldtip(_)
close_oldtip(s) ==
  IF s.ev.raised THEN s
  ELSE IF s.oldtip # s.last_matched_container
  THEN LET parent == s.nodes[s.oldtip].parent
           s1 == finalize(s, s.oldtip, s.line_number - 1)
       IN close_oldtip([s1 EXCEPT !.oldtip = parent])
  ELSE s

\* Parser.close_unmatched_blocks
close_unmatched_blocks(s) ==
  IF ~s.all_closed
  THEN [close_oldtip(s) EXCEPT !.all_closed = TRUE]
  ELSE s


\* ------------------------------------------------------------------------
\* continue_ of the block classes: <<rv, s>>
\* ------------------------------------------------------------------------

BlockQuote_continue(s, container) ==
  LET ln == s.current_line
      s1 == advance_offset(advance_next_nonspace(s), 1, FALSE)
  IN IF ~s.indented /\ peek(ln, s.next_nonspace) = ">"
     THEN IF peek(ln, s1.offset) = " "
          THEN <<0, [s1 EXCEPT !.offset = @ + 1]>>
          ELSE <<0, s1>>
     ELSE <<1, s>>

Item_continue(s, container) ==
  LET list_data == s.nodes[container].list_data
  IN IF s.blank /\ last_child(s.nodes, container) # NoNode
     THEN <<0, advance_next_nonspace(s)>>
     ELSE IF s.indent >= list_data.marker_offset + list_data.padding
     THEN <<0, advance_offset(s, list_data.marker_offset + list_data.padding,
                              TRUE)>>
     ELSE <<1, s>>

\* A faulty loop, which skips no space: the lines of the code block keep the
\* indentation of the fence.
skip_fence_offset_none(s, i) == s

\* The loop of CodeBlock.continue_ that skips the spaces of the fence offset.
RECURSIVE skip_fence_offset(_, _)
skip_fence_offset(s, i) ==
  IF i > 0 /\ peek(s.current_line, s.offset) = " "
  THEN skip_fence_offset(advance_offset(s, 1, FALSE), i - 1)
  ELSE s

\* A faulty CodeBlock.continue_, which takes any closing fence of the
\* character of the block, whatever its length.
CodeBlock_continue_any_length(s, container) ==
  LET ln == s.current_line
      c == s.nodes[container]
      match == IF /\ s.indent <= 3
                  /\ Len(ln) >= s.next_nonspace + 1
                  /\ ln[s.next_nonspace + 1] = c.fence_char
               THEN reClosingCodeFence(Slice(ln, s.next_nonspace))
               ELSE 0
  IN IF c.is_fenced
     THEN IF match > 0
          THEN <<2, finalize(s, container, s.line_number)>>
          ELSE <<0, skip_fence_offset(s, c.fence_offset)>>
     ELSE IF s.indent >= CODE_INDENT
          THEN <<0, advance_offset(s, CODE_INDENT, TRUE)>>
          ELSE IF s.blank
          THEN <<0, advance_next_nonspace(s)>>
          ELSE <<1, s>>

CodeBlock_continue(s, container) ==
  LET ln == s.current_line
      indent == s.indent
      c == s.nodes[container]
      match == IF /\ indent <= 3
                  /\ Len(ln) >= s.next_nonspace + 1
                  /\ ln[s.next_nonspace + 1] = c.fence_char
               THEN reClosingCodeFence(Slice(ln, s.next_nonspace))
               ELSE 0
  IN IF c.is_fenced
     THEN IF match > 0 /\ match >= c.fence_length
          THEN <<2, finalize(s, container, s.line_number)>>
          ELSE <<0, skip_fence_offset(s, c.fence_offset)>>
     ELSE IF indent >= CODE_INDENT
          THEN <<0, advance_offset(s, CODE_INDENT, TRUE)>>
          ELSE IF s.blank
          THEN <<0, advance_next_nonspace(s)>>
          ELSE <<1, s>>

\* A faulty HtmlBlock.continue_, which a blank line ends whatever the type
\* of the block.
HtmlBlock_continue_blank_ends(s, container) ==
  IF s.blank THEN <<1, s>> ELSE <<0, s>>

HtmlBlock_continue(s, container) ==
  IF /\ s.blank
     /\ \/ s.nodes[container].html_block_type = 6
        \/ s.nodes[container].html_block_type = 7
  THEN <<1, s>>
  ELSE <<0, s>>

Paragraph_continue(s, container) == IF s.blank THEN <<1, s>> ELSE <<0, s>>

\* block_class.continue_(self, container) for the class of the container.
continue_(s, container) ==
  CASE s.nodes[container].t = "Document" -> <<0, s>>
    [] s.nodes[container].t = "List" -> <<0, s>>
    [] s.nodes[container].t = "BlockQuote" -> BlockQuote_continue(s, container)
    [] s.nodes[container].t = "Item" -> Item_continue(s, container)
    [] s.nodes[container].t = "Heading" -> <<1, s>>
    [] s.nodes[container].t = "ThematicBreak" -> <<1, s>>
    [] s.nodes[container].t = "CodeBlock" -> CodeBlock_continue(s, container)
    [] s.nodes[container].t = "HtmlBlock" -> HtmlBlock_continue(s, container)
    [] s.nodes[container].t = "Paragraph" -> Paragraph_continue(s, container)

\* ------------------------------------------------------------------------
\* BlockStarts: [res, s]
\* ------------------------------------------------------------------------

NoMatch(s) == [res |-> 0, s |-> s]

\* The text of the current line from next_nonspace on.
rest_of_line(s) == Slice(s.current_line, s.next_nonspace)

\* advance_offset(len(current_line) - offset, False): to the end of the line.
advance_to_end(s) == advance_offset(s, Len(s.current_line) - s.offset, FALSE)

block_quote(s, container) ==
  LET s1 == advance_offset(advance_next_nonspace(s), 1, FALSE)
      s2 == IF peek(s1.current_line, s1.offset) = " "
            THEN advance_offset(s1, 1, FALSE)
            ELSE s1
      open(s3) == add_child(s3, "BlockQuote", s3.next_nonspace)
  IN IF ~s.indented /\ peek(s.current_line, s.next_nonspace) = ">"
     THEN [res |-> 1, s |-> open(close_unmatched_blocks(s2))]
     ELSE NoMatch(s)

atx_heading(s, container) ==
  LET m == reATXHeadingMarker(rest_of_line(s))
      s1 == advance_offset(advance_next_nonspace(s), m, FALSE)
      fill(s2) ==
        LET heading == s2.tip
        IN IF s2.ev.raised
           THEN s2
           ELSE [s2 EXCEPT
                   !.nodes[heading].level =
                     Len(strip(Prefix(rest_of_line(s), m))),
                   !.nodes[heading].string_content =
                     atx_content(Slice(s2.current_line, s2.offset))]
  IN IF ~s.indented /\ m > 0
     THEN [res |-> 2,
           s |-> advance_to_end(fill(add_child(close_unmatched_blocks(s1),
                                               "Heading", s1.next_nonspace)))]
     ELSE NoMatch(s)

fenced_code_block(s, container) ==
  LET fence_length == reCodeFence(rest_of_line(s))
      fill(s1) ==
        LET block == s1.tip
        IN IF s1.ev.raised
           THEN s1
           ELSE [s1 EXCEPT !.nodes[block].is_fenced = TRUE,
                           !.nodes[block].fence_length = fence_length,
                           !.nodes[block].fence_char = rest_of_line(s)[1],
                           !.nodes[block].fence_offset = s1.indent]
  IN IF ~s.indented /\ fence_length > 0
     THEN [res |-> 2,
           s |-> advance_offset(
                   advance_next_nonspace(
                     fill(add_child(close_unmatched_blocks(s), "CodeBlock",
                                    s.next_nonspace))),
                   fence_length, FALSE)]
     ELSE NoMatch(s)

\* The loop of html_block: the first block type from block_type on whose
\* open pattern matches, 0 if none.
RECURSIVE html_block_type(_, _, _)
html_block_type(str, container_t, block_type) ==
  IF block_type > 7 THEN 0
  ELSE IF /\ reHtmlBlockOpen(block_type, str)
          /\ (block_type < 7 \/ container_t # "Paragraph")
       THEN block_type
       ELSE html_block_type(str, container_t, block_type + 1)

html_block(s, container) ==
  LET open(block_type) ==
        LET fill(s1) ==
              IF s1.ev.raised
              THEN s1
              ELSE [s1 EXCEPT !.nodes[s1.tip].html_block_type = block_type]
        IN IF block_type > 0
           THEN [res |-> 2,
                 s |-> fill(add_child(close_unmatched_blocks(s), "HtmlBlock",
                                      s.offset))]
           ELSE NoMatch(s)
  IN IF ~s.indented /\ peek(s.current_line, s.next_nonspace) = "<"
     THEN open(html_block_type(rest_of_line(s), s.nodes[container].t, 1))
     ELSE NoMatch(s)

\* A faulty setext_heading, which does not unlink the paragraph: the heading
\* stands after the paragraph, not in its place.
setext_heading_keeps_paragraph(s, container) ==
  LET str == rest_of_line(s)
      replace(s1) ==
        LET heading == Len(s1.nodes) + 1
            node == [Node("Heading", s1.nodes[container].sourcepos) EXCEPT
                       !.level = IF str[1] = "=" THEN 1 ELSE 2,
                       !.string_content = s1.nodes[container].string_content]
            linked == insert_after(Append(s1.nodes, node), container, heading)
        IN [s1 EXCEPT !.nodes = linked,
                      !.tip = heading,
                      !.ev.setext = container]
  IN IF /\ ~s.indented
        /\ s.nodes[container].t = "Paragraph"
        /\ reSetextHeadingLine(str)
     THEN [res |-> 2,
           s |-> advance_to_end(replace(close_unmatched_blocks(s)))]
     ELSE NoMatch(s)

\* The Heading takes the place of the Paragraph.  (In the source it is given
\* the sourcepos list of the paragraph itself, not a copy; the paragraph is
\* out of the tree from here on.)
setext_heading(s, container) ==
  LET str == rest_of_line(s)
      replace(s1) ==
        LET heading == Len(s1.nodes) + 1
            node == [Node("Heading", s1.nodes[container].sourcepos) EXCEPT
                       !.level = IF str[1] = "=" THEN 1 ELSE 2,
                       !.string_content = s1.nodes[container].string_content]
            linked == insert_after(Append(s1.nodes, node), container, heading)
        IN [s1 EXCEPT !.nodes = unlink(linked, container),
                      !.tip = heading,
                      !.ev.setext = container]
  IN IF /\ ~s.indented
        /\ s.nodes[container].t = "Paragraph"
        /\ reSetextHeadingLine(str)
     THEN [res |-> 2,
           s |-> advance_to_end(replace(close_unmatched_blocks(s)))]
     ELSE NoMatch(s)

thematic_break(s, container) ==
  IF ~s.indented /\ reThematicBreak(rest_of_line(s))
  THEN LET s1 == add_child(close_unmatched_blocks(s), "ThematicBreak",
                           s.next_nonspace)
       IN [res |-> 2, s |-> advance_to_end(s1)]
  ELSE NoMatch(s)

list_item(s, container) ==
  LET marked(r) ==
        LET data == r.data
            fill(a) == IF a.ev.raised
                       THEN a
                       ELSE [a EXCEPT !.nodes[a.tip].list_data = data]
            add_item(s2) == fill(add_child(s2, "Item", s2.next_nonspace))
            add_list(s1) ==
              IF \/ s1.nodes[s1.tip].t # "List"
                 \/ ~lists_match(s1.nodes[container].list_data, data)
              THEN add_item(fill(add_child(s1, "List", s1.next_nonspace)))
              ELSE add_item(s1)
        IN IF r.ok
           THEN [res |-> 1, s |-> add_list(close_unmatched_blocks(r.s))]
           ELSE NoMatch(s)
  IN IF ~s.indented \/ s.nodes[container].t = "List"
     THEN marked(parse_list_marker(s))
     ELSE NoMatch(s)

\* A faulty matcher, which opens an indented code block whatever the tip.
indented_code_block_in_paragraph(s, container) ==
  LET open(s1) == add_child(s1, "CodeBlock", s1.offset)
  IN IF s.indented /\ ~s.blank
     THEN [res |-> 2,
           s |-> open(close_unmatched_blocks(
                        advance_offset(s, CODE_INDENT, TRUE)))]
     ELSE NoMatch(s)

indented_code_block(s, container) ==
  LET open(s1) == add_child(s1, "CodeBlock", s1.offset)
  IN IF s.indented /\ s.nodes[s.tip].t # "Paragraph" /\ ~s.blank
     THEN [res |-> 2,
           s |-> open(close_unmatched_blocks(
                        advance_offset(s, CODE_INDENT, TRUE)))]
     ELSE NoMatch(s)

\* A faulty order, in which list_item comes before thematic_break.
METHODS_list_item_first ==
  <<"block_quote", "atx_heading", "fenced_code_block", "html_block",
    "setext_heading", "list_item", "thematic_break", "indented_code_block">>

\* BlockStarts.METHODS
METHODS ==
  <<"block_quote", "atx_heading", "fenced_code_block", "html_block",
    "setext_heading", "thematic_break", "list_item", "indented_code_block">>

\* getattr(starts, method)(self, container)
block_start(method, s, container) ==
  CASE method = "block_quote" -> block_quote(s, container)
    [] method = "atx_heading" -> atx_heading(s, container)
    [] method = "fenced_code_block" -> fenced_code_block(s, container)
    [] method = "html_block" -> html_block(s, container)
    [] method = "setext_heading" -> setext_heading(s, container)
    [] method = "thematic_break" -> thematic_break(s, container)
    [] method = "list_item" -> list_item(s, container)
    [] method = "indented_code_block" -> indented_code_block(s, container)


\* ------------------------------------------------------------------------
\* Parser.incorporate_line
\* ------------------------------------------------------------------------

\* The NUL character and U+FFFD, each one character of a line.
NUL == "NUL"
FFFD == "FFFD"

\* re.sub that stops after the first NUL
replace_first_nul(ln) ==
  [i \in 1..Len(ln) |->
     IF ln[i] = NUL /\ \A j \in 1..(i - 1) : ln[j] # NUL THEN FFFD ELSE ln[i]]

\* re.sub of NUL by U+FFFD
replace_nul(ln) == [i \in 1..Len(ln) |-> IF ln[i] = NUL THEN FFFD ELSE ln[i]]

\* What a call of incorporate_line has done, for the properties below:
\* iters, one entry for each pass of the loop over the block starts (where
\* the pass stood, its container, the types of the container and of the
\* tip, and the method that matched,
\* "none" if none did and "skip" if the pass was skipped); failed, some open
\* block did not continue; ret2, the line closed a fenced code block; broke,
\* break_out_of_lists finalized lists; lazy, the line was a lazy paragraph
\* continuation; setext, the paragraph the line turned into a heading;
\* closed, the blocks finalized, in order; tips, the tip that each of these
\* calls of finalize has left; lines_to, the blocks add_line wrote to;
\* raised, the call has raised an exception, and nothing was done from
\* there on.
NoEvents ==
  [iters |-> <<>>, failed |-> FALSE, ret2 |-> FALSE, broke |-> FALSE,
   lazy |-> FALSE, setext |-> NoNode, closed |-> <<>>, tips |-> <<>>,
   lines_to |-> <<>>, raised |-> FALSE]

\* The first loop: continue the open blocks, from the last child of
\* container down.  [s, container, all_matched, ret], ret when a continue_
\* answered 2.
RECURSIVE continue_containers(_, _)
continue_containers(s, container) ==
  LET lc == last_child(s.nodes, container)
      continued(r) ==
        CASE r[1] = 0 -> continue_containers(r[2], lc)
          [] r[1] = 1 ->
               [s |-> r[2], container |-> r[2].nodes[lc].parent,
                all_matched |-> FALSE, ret |-> FALSE]
          [] r[1] = 2 ->
               [s |-> r[2], container |-> lc, all_matched |-> TRUE,
                ret |-> TRUE]
          [] OTHER ->
               [s |-> [r[2] EXCEPT !.ev.raised = TRUE], container |-> lc,
                all_matched |-> TRUE, ret |-> FALSE]
  IN IF lc # NoNode /\ s.nodes[lc].is_open
     THEN continued(continue_(find_next_nonspace(s), lc))
     ELSE [s |-> s, container |-> container, all_matched |-> TRUE,
           ret |-> FALSE]

\* The inner loop over METHODS, from the i-th on: [res, s, method].
RECURSIVE try_starts(_, _, _)
try_starts(s, container, i) ==
  LET tried(r) ==
        IF r.res = 0
        THEN try_starts(s, container, i + 1)
        ELSE [res |-> r.res, s |-> r.s, method |-> METHODS[i]]
  IN IF i > Len(METHODS)
     THEN [res |-> 0, s |-> s, method |-> "none"]
     ELSE tried(block_start(METHODS[i], s, container))

\* One entry of ev.iters.
Iteration(s, container, method) ==
  [at |-> s.next_nonspace, indented |-> s.indented,
   rest |-> rest_of_line(s), ctype |-> s.nodes[container].t, m |-> method,
   tip |-> IF s.tip = NoNode THEN None ELSE s.nodes[s.tip].t,
   container |-> container]

\* The loop "while not matched_leaf": [s, container].
RECURSIVE open_new_blocks(_, _, _)
open_new_blocks(s, container, matched_leaf) ==
  LET pass(s1) ==
        LET log(x, method) ==
              [x EXCEPT
                 !.ev.iters = Append(@, Iteration(s1, container, method))]
            started(r) ==
              IF r.s.ev.raised
              THEN [s |-> r.s, container |-> container]
              ELSE CASE r.res = 1 ->
                          open_new_blocks(log(r.s, r.method), r.s.tip, FALSE)
                     [] r.res = 2 ->
                          [s |-> log(r.s, r.method), container |-> r.s.tip]
                     [] OTHER ->
                          [s |-> log(advance_next_nonspace(r.s), "none"),
                           container |-> container]
        IN IF ~s1.indented /\ ~reMaybeSpecial(rest_of_line(s1))
           THEN [s |-> log(advance_next_nonspace(s1), "skip"),
                 container |-> container]
           ELSE started(try_starts(s1, container, 1))
  IN IF matched_leaf
     THEN [s |-> s, container |-> container]
     ELSE pass(find_next_nonspace(s))

\* cont.last_line_blank = last_line_blank for cont and all its ancestors.
RECURSIVE set_last_line_blank(_, _, _)
set_last_line_blank(nodes, cont, last_line_blank) ==
  IF cont = NoNode THEN nodes
  ELSE set_last_line_blank(
         [nodes EXCEPT ![cont].last_line_blank = last_line_blank],
         nodes[cont].parent, last_line_blank)

\* A faulty condition, which reads all_closed where the source reads
\* not all_closed: no line is a lazy continuation of a paragraph that some
\* open block above has failed to continue.
lazy_if_all_closed(s) ==
  s.all_closed /\ ~s.blank /\ s.nodes[s.tip].t = "Paragraph"

\* The condition of a lazy paragraph continuation.
lazy_paragraph_continuation(s) ==
  ~s.all_closed /\ ~s.blank /\ s.nodes[s.tip].t = "Paragraph"

\* A faulty text phase, which counts the blank lines of a fenced code block
\* as blank lines.
add_text_blank_in_fence(s, container) ==
  LET t == s.nodes[container].t
      added(s4) ==
        IF /\ t = "HtmlBlock"
           /\ s4.nodes[container].html_block_type >= 1
           /\ s4.nodes[container].html_block_type <= 5
           /\ reHtmlBlockClose(s4.nodes[container].html_block_type,
                               Slice(s4.current_line, s4.offset))
        THEN finalize(s4, container, s4.line_number)
        ELSE s4
      text(s3) ==
        IF accepts_lines(t)
        THEN added(add_line(s3))
        ELSE IF s3.offset < Len(s3.current_line) /\ ~s3.blank
        THEN add_line(advance_next_nonspace(
                        add_child(s3, "Paragraph", s3.offset)))
        ELSE s3
      blanks(s2) ==
        LET last_line_blank ==
              /\ s2.blank
              /\ ~ \/ t = "BlockQuote"
                   \/ /\ t = "Item"
                      /\ first_child(s2.nodes, container) = NoNode
                      /\ s2.nodes[container].sourcepos[1][1] = s2.line_number
        IN text([s2 EXCEPT !.nodes = set_last_line_blank(s2.nodes, container,
                                                        last_line_blank)])
      closed(s1) ==
        LET lc == last_child(s1.nodes, container)
        IN blanks(IF s1.blank /\ lc # NoNode
                  THEN [s1 EXCEPT !.nodes[lc].last_line_blank = TRUE]
                  ELSE s1)
  IN IF s.ev.raised
     THEN s
     ELSE IF lazy_paragraph_continuation(s)
     THEN [add_line(s) EXCEPT !.ev.lazy = TRUE]
     ELSE closed(close_unmatched_blocks(s))

\* The last part of incorporate_line: the text that remains on the line.
add_text(s, container) ==
  LET t == s.nodes[container].t
      added(s4) ==
        IF /\ t = "HtmlBlock"
           /\ s4.nodes[container].html_block_type >= 1
           /\ s4.nodes[container].html_block_type <= 5
           /\ reHtmlBlockClose(s4.nodes[container].html_block_type,
                               Slice(s4.current_line, s4.offset))
        THEN finalize(s4, container, s4.line_number)
        ELSE s4
      text(s3) ==
        IF accepts_lines(t)
        THEN added(add_line(s3))
        ELSE IF s3.offset < Len(s3.current_line) /\ ~s3.blank
        THEN add_line(advance_next_nonspace(
                        add_child(s3, "Paragraph", s3.offset)))
        ELSE s3
      blanks(s2) ==
        LET last_line_blank ==
              /\ s2.blank
              /\ ~ \/ t = "BlockQuote"
                   \/ (t = "CodeBlock" /\ s2.nodes[container].is_fenced)
                   \/ /\ t = "Item"
                      /\ first_child(s2.nodes, container) = NoNode
                      /\ s2.nodes[container].sourcepos[1][1] = s2.line_number
        IN text([s2 EXCEPT !.nodes = set_last_line_blank(s2.nodes, container,
                                                        last_line_blank)])
      closed(s1) ==
        LET lc == last_child(s1.nodes, container)
        IN blanks(IF s1.blank /\ lc # NoNode
                  THEN [s1 EXCEPT !.nodes[lc].last_line_blank = TRUE]
                  ELSE s1)
  IN IF s.ev.raised
     THEN s
     ELSE IF lazy_paragraph_continuation(s)
     THEN [add_line(s) EXCEPT !.ev.lazy = TRUE]
     ELSE closed(close_unmatched_blocks(s))

incorporate_line(s0, line) ==
  LET ln == IF \E i \in 1..Len(line) : line[i] = NUL
            THEN replace_nul(line)
            ELSE line
      s1 == [s0 EXCEPT !.oldtip = s0.tip, !.offset = 0, !.column = 0,
                       !.line_number = @ + 1, !.current_line = ln,
                       !.ev = NoEvents]
      text(p2) == add_text(p2.s, p2.container)
      starts(s3, container) ==
        LET matched_leaf == /\ s3.nodes[container].t # "Paragraph"
                            /\ accepts_lines(s3.nodes[container].t)
        IN text(open_new_blocks(s3, container, matched_leaf))
      matched(p1) ==
        LET s2 == [p1.s EXCEPT !.all_closed = (p1.container = p1.s.oldtip),
                               !.last_matched_container = p1.container,
                               !.ev.failed = ~p1.all_matched]
            second_blank ==
              s2.blank /\ s2.nodes[p1.container].last_line_blank
            from(s3) ==
              starts(s3, IF second_blank THEN s3.tip ELSE p1.container)
        IN IF p1.s.ev.raised
           THEN p1.s
           ELSE IF p1.ret
           THEN [p1.s EXCEPT !.last_line_length = Len(ln), !.ev.ret2 = TRUE]
           ELSE [from(IF second_blank
                      THEN break_out_of_lists(s2, p1.container)
                      ELSE s2) EXCEPT
                   !.last_line_length = Len(ln)]
  IN matched(continue_containers(s1, Doc))

\* ------------------------------------------------------------------------
\* Parser.parse
\* ------------------------------------------------------------------------

\* The loop "while self.tip: self.finalize(self.tip, length)".
\* A faulty loop, which finalizes the tip and stops: the blocks above the
\* tip stay open.
close_all_once(s, length) ==
  IF s.tip # NoNode THEN finalize(s, s.tip, length) ELSE s

RECURSIVE close_all(_, _)
close_all(s, length) ==
  IF s.tip # NoNode /\ ~s.ev.raised
  THEN close_all(finalize(s, s.tip, length), length)
  ELSE s

\* Parser.process_inlines: the inline parser works on the string_content of
\* the paragraphs and headings and gives them inline children; it changes no
\* field of a block that this model holds.
process_inlines(s) == s


\* ------------------------------------------------------------------------
\* The state machine: a Parser, and parse at work on an input
\* ------------------------------------------------------------------------

VARIABLES
  nodes,                  \* the heap: the Document (node 1) and its blocks
  tip, oldtip, last_matched_container,
  current_line, line_number, offset, column,
  next_nonspace, next_nonspace_column, indent, indented, blank,
  all_closed, refmap, last_line_length,
  pc,                     \* "lines": parse is in its loop over the lines;
                          \* "done": parse has returned; "raised": an
                          \* exception has ended it
  corpus,                 \* the set of lines the input is drawn from
  input,                  \* the lines incorporated so far
  in_fence,               \* for each of them: the line was added to a
                          \* fenced code block
  ev,                     \* what the last call of incorporate_line did
  left                    \* blank and all_closed as they were when this
                          \* call of parse began

vars ==
  <<nodes, tip, oldtip, last_matched_container, current_line, line_number,
    offset, column, next_nonspace, next_nonspace_column, indent, indented,
    blank, all_closed, refmap, last_line_length, pc, corpus, input, in_fence,
    ev, left>>

\* The longest input, in lines.
MaxLines == 4

\* The Parser object and its heap as one record.
Parser ==
  [nodes |-> nodes, tip |-> tip, oldtip |-> oldtip,
   last_matched_container |-> last_matched_container,
   current_line |-> current_line, line_number |-> line_number,
   offset |-> offset, column |-> column, next_nonspace |-> next_nonspace,
   next_nonspace_column |-> next_nonspace_column, indent |-> indent,
   indented |-> indented, blank |-> blank, all_closed |-> all_closed,
   refmap |-> refmap, last_line_length |-> last_line_length, ev |-> ev]

\* The Parser object becomes s.
Becomes(s) ==
  /\ nodes' = s.nodes
  /\ tip' = s.tip
  /\ oldtip' = s.oldtip
  /\ last_matched_container' = s.last_matched_container
  /\ current_line' = s.current_line
  /\ line_number' = s.line_number
  /\ offset' = s.offset
  /\ column' = s.column
  /\ next_nonspace' = s.next_nonspace
  /\ next_nonspace_column' = s.next_nonspace_column
  /\ indent' = s.indent
  /\ indented' = s.indented
  /\ blank' = s.blank
  /\ all_closed' = s.all_closed
  /\ refmap' = s.refmap
  /\ last_line_length' = s.last_line_length
  /\ ev' = s.ev

\* Parser.__init__, and the fields parse sets before its loop.
InitParser ==
  /\ nodes = <<Node("Document", <<<<1, 1>>, <<0, 0>>>>)>>
  /\ tip = Doc
  /\ oldtip = Doc
  /\ last_matched_container = Doc
  /\ current_line = <<>>
  /\ line_number = 0
  /\ offset = 0
  /\ column = 0
  /\ next_nonspace = 0
  /\ next_nonspace_column = 0
  /\ indent = 0
  /\ indented = FALSE
  /\ blank = FALSE
  /\ all_closed = TRUE
  /\ refmap = {}
  /\ last_line_length = 0
  /\ pc = "lines"
  /\ input = <<>>
  /\ in_fence = <<>>
  /\ ev = NoEvents
  /\ left = [blank |-> FALSE, all_closed |-> TRUE]

\* add_line has added the line to a fenced code block.
LineInFence ==
  \E i \in 1..Len(ev.lines_to) :
    /\ nodes[ev.lines_to[i]].t = "CodeBlock"
    /\ nodes[ev.lines_to[i]].is_fenced

\* One pass of the loop of parse: self.incorporate_line(lines[i]).
IncorporateLine ==
  /\ pc = "lines"
  /\ line_number < MaxLines
  /\ \E ln \in corpus :
       /\ Becomes(incorporate_line(Parser, ln))
       /\ input' = Append(input, ln)
  /\ in_fence' = Append(in_fence, LineInFence')
  /\ pc' = IF ev'.raised THEN "raised" ELSE "lines"
  /\ UNCHANGED <<corpus, left>>

\* The end of parse, after the last line: every open block is finalized and
\* the inline parser runs.  (re.split gives parse at least one line.)
Finish ==
  /\ pc = "lines"
  /\ line_number >= 1
  /\ Becomes(process_inlines(close_all([Parser EXCEPT !.ev = NoEvents],
                                       line_number)))
  /\ pc' = IF ev'.raised THEN "raised" ELSE "done"
  /\ UNCHANGED <<corpus, input, in_fence, left>>

Next == IncorporateLine \/ Finish

\* A further call of parse on the same Parser, after one that has returned:
\* the assignments at the head of parse, which leave oldtip, next_nonspace,
\* next_nonspace_column, indent, indented, blank and all_closed as the
\* earlier call has left them.
ParseAgain ==
  /\ pc = "done"
  /\ nodes' = <<Node("Document", <<<<1, 1>>, <<0, 0>>>>)>>
  /\ tip' = Doc
  /\ refmap' = {}
  /\ line_number' = 0
  /\ last_line_length' = 0
  /\ offset' = 0
  /\ column' = 0
  /\ last_matched_container' = Doc
  /\ current_line' = <<>>
  /\ pc' = "lines"
  /\ input' = <<>>
  /\ in_fence' = <<>>
  /\ ev' = NoEvents
  /\ left' = [blank |-> blank, all_closed |-> all_closed]
  /\ UNCHANGED <<oldtip, next_nonspace, next_nonspace_column, indent,
                 indented, blank, all_closed, corpus>>

NextReused == IncorporateLine \/ Finish \/ ParseAgain

\* A Parser as __init__ and the head of parse make it.
NewParser ==
  [nodes |-> <<Node("Document", <<<<1, 1>>, <<0, 0>>>>)>>, tip |-> Doc,
   oldtip |-> Doc, last_matched_container |-> Doc, current_line |-> <<>>,
   line_number |-> 0, offset |-> 0, column |-> 0, next_nonspace |-> 0,
   next_nonspace_column |-> 0, indent |-> 0, indented |-> FALSE,
   blank |-> FALSE, all_closed |-> TRUE, refmap |-> {},
   last_line_length |-> 0, ev |-> NoEvents]

\* The loop of parse over the lines, from the i-th on.
RECURSIVE incorporate_lines(_, _, _)
incorporate_lines(s, lines, i) ==
  IF i > Len(lines) THEN s
  ELSE incorporate_lines(incorporate_line(s, lines[i]), lines, i + 1)

\* parse on a new Parser: what its loop over the lines has made of them
\* and, if returned, what parse returns.
parse(lines, returned) ==
  LET after_lines(s) ==
        IF returned
        THEN process_inlines(close_all([s EXCEPT !.ev = NoEvents], Len(lines)))
        ELSE s
  IN after_lines(incorporate_lines(NewParser, lines, 1))

\* re.split(reLineEnding, text): the parts of text between the line
\* endings '\r\n', '\n' and '\r'; line is the part read so far.
RECURSIVE split(_, _)
split(text, line) ==
  IF text = <<>> THEN <<line>>
  ELSE IF text[1] = "\r" /\ Len(text) > 1 /\ text[2] = "\n"
  THEN <<line>> \o split(Slice(text, 2), <<>>)
  ELSE IF text[1] = "\n" \/ text[1] = "\r"
  THEN <<line>> \o split(Slice(text, 1), <<>>)
  ELSE split(Slice(text, 1), Append(line, text[1]))

\* A faulty parse, which does not ignore the last blank line that a final
\* newline creates.
parse_input_with_last_line(my_input) == parse(split(my_input, <<>>), TRUE)

\* parse(my_input) on a new Parser: the tree and the Parser at the return.
parse_input(my_input) ==
  LET lines == split(my_input, <<>>)
      length == IF Len(my_input) > 0 /\ my_input[Len(my_input)] = "\n"
                THEN Len(lines) - 1
                ELSE Len(lines)
  IN parse(Prefix(lines, length), TRUE)


\* ------------------------------------------------------------------------
\* Inputs
\* ------------------------------------------------------------------------

\* Lines of lists, block quotes, paragraphs and a code fence, blank lines
\* among them.
ListLines ==
  { <<"-", " ", "a">>,
    <<"-">>,
    <<>>,
    <<" ", " ", " ">>,
    <<"a">>,
    <<" ", " ", "a">>,
    <<">", " ", "-", " ", "a">>,
    <<" ", " ", ">">>,
    <<" ", " ", Backtick, Backtick, Backtick>> }

\* Lines of paragraphs, setext underlines, thematic breaks and list markers.
HeadingLines ==
  { <<"a">>,
    <<"=", "=", "=">>,
    <<"-", "-", "-">>,
    <<"-", " ", "-", " ", "-">>,
    <<"*", " ", "*", " ", "*">>,
    <<"-", " ", "a">>,
    <<" ", " ", "-", "-", "-">>,
    <<">", " ", "a">>,
    <<"#", " ", "a">> }

\* Lines of fenced code blocks, plain, indented and in a block quote, one
\* of them with a NUL.
FenceLines ==
  { <<Backtick, Backtick, Backtick>>,
    <<" ", Backtick, Backtick, Backtick>>,
    <<"~", "~", "~">>,
    <<NUL, "x", NUL>>,
    <<" ", "x">>,
    <<>>,
    <<">", " ", Backtick, Backtick, Backtick>>,
    <<">", " ", "x">>,
    <<Backtick, Backtick, Backtick, Backtick>>,
    <<Backtick, Backtick, Backtick, " ">>,
    <<" ", " ", " ", " ", Backtick, Backtick, Backtick>> }

\* Lines of link reference definitions, alone, in a row, in containers and
\* before text, and of what ends a paragraph.
ReferenceLines ==
  { <<"[", "a", "]", ":", " ", "/", "u">>,
    <<"[", "b", "]", ":", " ", "/", "v">>,
    <<"[", "a", "]">>,
    <<"a">>,
    <<>>,
    <<"-", " ", "[", "a", "]", ":", " ", "/", "u">>,
    <<">", " ", "[", "a", "]", ":", " ", "/", "u">>,
    <<"#", " ", "a">>,
    <<" ", " ", "[", "c", "]", ":", " ", "/", "w">> }

Init == InitParser /\ corpus = ListLines

\* Lines that open HTML blocks of the types 1 to 7, lines with the close
\* patterns of the types 1 to 5, a blank line and lines of a block quote.
HtmlLines ==
  { <<"<", "p", "r", "e", ">">>,
    <<"<", "/", "p", "r", "e", ">">>,
    <<"<", "!", "-", "-">>,
    <<"-", "-", ">">>,
    <<"<", "?", "?", ">">>,
    <<"<", "!", "A">>,
    <<"<", "!", "[", "C", "D", "A", "T", "A", "[">>,
    <<"]", "]", ">">>,
    <<"<", "d", "i", "v", ">">>,
    <<"<", "a", ">">>,
    <<>>,
    <<">", " ", "<", "!", "A">>,
    <<">", " ", "a">> }

\* Lines of paragraphs, block quotes and list items, with and without four
\* or more columns of indentation.
IndentedLines ==
  { <<"a">>,
    <<" ", " ", " ", " ", "a">>,
    <<">", " ", "a">>,
    <<">", " ", " ", " ", " ", " ", "a">>,
    <<"-", " ", "a">>,
    <<" ", " ", " ", "-", " ", "a">>,
    <<" ", " ", " ", " ", "-", " ", "a">>,
    <<" ", " ", " ", " ", " ", " ", "a">>,
    <<>> }

\* Lines with list markers of both types, both delimiters and two bullet
\* characters, at the margin and nested, and lines of text.
MarkerLines ==
  { <<"-", " ", "a">>,
    <<"*", " ", "a">>,
    <<"1", ".", " ", "a">>,
    <<"2", ".", " ", "a">>,
    <<"1", ")", " ", "a">>,
    <<"-", " ", "-", " ", "a">>,
    <<" ", " ", " ", "*", " ", "a">>,
    <<"a">>,
    <<>> }

InitHeadings == InitParser /\ corpus = HeadingLines

InitFences == InitParser /\ corpus = FenceLines

InitReferences == InitParser /\ corpus = ReferenceLines

InitHtml == InitParser /\ corpus = HtmlLines

InitIndented == InitParser /\ corpus = IndentedLines

InitMarkers == InitParser /\ corpus = MarkerLines

Spec == Init /\ [][Next]_vars

SpecHeadings == InitHeadings /\ [][Next]_vars

SpecFences == InitFences /\ [][Next]_vars

SpecReferences == InitReferences /\ [][Next]_vars

SpecHtml == InitHtml /\ [][Next]_vars

SpecIndented == InitIndented /\ [][Next]_vars

SpecMarkers == InitMarkers /\ [][Next]_vars

\* One Parser, and call after call of parse on it.
SpecReused == Init /\ [][NextReused]_vars

\* A step of parse as line_number and pc show it: one more line is
\* incorporated, or parse returns.
ParseStep ==
  /\ pc = "lines"
  /\ \/ line_number < MaxLines /\ line_number' = line_number + 1 /\ pc' = pc
     \/ line_number >= 1 /\ line_number' = line_number /\ pc' = "done"

\* parse runs on: nothing but its own loops decides when it takes its next
\* step.
SpecParse == Init /\ [][Next]_vars /\ WF_<<line_number, pc>>(ParseStep)


\* ------------------------------------------------------------------------
\* The tree
\* ------------------------------------------------------------------------

\* The blocks made so far, those unlinked from the tree among them.
Blocks == 1..Len(nodes)

\* n and its ancestors in the heap h.
RECURSIVE AncestorsOrSelf(_, _)
AncestorsOrSelf(h, n) ==
  IF n = NoNode THEN {} ELSE {n} \cup AncestorsOrSelf(h, h[n].parent)

\* n is a node of the tree under the Document.
InTree(n) == Doc \in AncestorsOrSelf(nodes, n)

\* The open nodes of the tree.
OpenNodes == {n \in Blocks : InTree(n) /\ nodes[n].is_open}

\* parse is between two lines, after a call of incorporate_line.
AfterLine == pc = "lines" /\ line_number >= 1

\* ------------------------------------------------------------------------
\* C1
\* ------------------------------------------------------------------------

\* C1: after every call of incorporate_line the open nodes are exactly the
\* tip and its ancestors: the tip is open, every ancestor of the tip is
\* open, and no node off the path from the root to the tip is open.
OpenNodesAreTheSpine ==
  AfterLine => OpenNodes = AncestorsOrSelf(nodes, tip)

\* ------------------------------------------------------------------------
\* C2
\* ------------------------------------------------------------------------

\* The table of the claim: what a parent of a type may have as a child.
MayHaveChild(parent_type, child_type) ==
  \/ parent_type \in {"Document", "BlockQuote", "Item"} /\ child_type # "Item"
  \/ parent_type = "List" /\ child_type = "Item"

\* C2: in every tree, during and after parsing, each edge from a parent to a
\* child satisfies can_contain: a Document, BlockQuote or Item has no Item
\* child, a List has only Item children, and a Heading, ThematicBreak,
\* CodeBlock, HtmlBlock or Paragraph has no child; the children attached by
\* add_child and the Heading put in by the setext rule alike.
EveryEdgeCanContain ==
  \A n \in Blocks :
    \A i \in 1..Len(nodes[n].children) :
      /\ nodes[nodes[n].children[i]].parent = n
      /\ MayHaveChild(nodes[n].t, nodes[nodes[n].children[i]].t)

\* The setext rule has put a Heading in an Item of a List with two Items.
SetextHeadingInSecondItem ==
  /\ AfterLine
  /\ ev.setext # NoNode
  /\ nodes[tip].t = "Heading"
  /\ nodes[nodes[tip].parent].t = "Item"
  /\ Len(nodes[nodes[nodes[tip].parent].parent].children) = 2

\* ------------------------------------------------------------------------
\* C3
\* ------------------------------------------------------------------------

\* The position a is not after the position b, a and b being <<line, column>>.
NotAfter(a, b) == a[1] < b[1] \/ (a[1] = b[1] /\ a[2] <= b[2])

\* C3: for every node of the tree that parse returns, the Document among
\* them, and for the empty input too, the start position is not after the
\* end position.
StartNotAfterEnd ==
  pc = "done" =>
    \A n \in Blocks :
      InTree(n) => NotAfter(nodes[n].sourcepos[1], nodes[n].sourcepos[2])

\* ------------------------------------------------------------------------
\* C4
\* ------------------------------------------------------------------------

\* The last two lines were blank, and the first of the two was not added to
\* a fenced code block.
TwoBlankLines ==
  /\ AfterLine
  /\ line_number >= 2
  /\ is_blank(input[line_number - 1])
  /\ is_blank(input[line_number])
  /\ ~in_fence[line_number - 1]

\* The Lists of the tree.
Lists == {n \in Blocks : InTree(n) /\ nodes[n].t = "List"}

\* No List is open, and no block in a List is.
NothingOpenInAList ==
  \A n \in OpenNodes : AncestorsOrSelf(nodes, n) \cap Lists = {}

\* The blocks that a step has made or has added the text of the line to.
TouchedByLine ==
  ((Len(nodes) + 1)..Len(nodes'))
    \cup {ev'.lines_to[i] : i \in 1..Len(ev'.lines_to)}

\* C4: two blank lines in a row end all lists.  After incorporate_line has
\* taken two blank lines in a row, the first of them not in a fenced code
\* block, no List is open and no block in a List is; and the blocks that the
\* next line of content makes or adds its text to are in none of the Lists
\* there were.
TwoBlankLinesEndLists ==
  [][line_number' = line_number + 1 =>
       /\ TwoBlankLines' => NothingOpenInAList'
       /\ (TwoBlankLines /\ ~is_blank(current_line')) =>
            \A b \in TouchedByLine :
              AncestorsOrSelf(nodes', b) \cap Lists = {}]_vars

\* A list item, two blank lines, and a line of content, which is a new child
\* of the Document while the List of the first line is closed.
ContentAfterTwoBlankLines ==
  /\ AfterLine
  /\ line_number = 4
  /\ is_blank(input[2]) /\ is_blank(input[3]) /\ ~in_fence[2]
  /\ ~is_blank(input[4])
  /\ nodes[2].t = "List" /\ InTree(2) /\ ~nodes[2].is_open
  /\ nodes[tip].parent = Doc
  /\ nodes[tip].sourcepos[1][1] = 4

\* ------------------------------------------------------------------------
\* C5
\* ------------------------------------------------------------------------

\* No block start has matched in the call of incorporate_line that e records.
NoStartFired(e) ==
  \A i \in 1..Len(e.iters) : e.iters[i].m \in {"none", "skip"}

\* The text of the line from the offset on.
RemainingText == Slice(current_line, offset)

\* C5: a lazy continuation changes nothing but the text of the paragraph.
\* When the tip is a Paragraph and a line fails to continue some open block,
\* is not blank (blank being the flag of the parser: nothing but white space
\* is left on the line) and fires no block start, the remaining text of the
\* line and a newline are appended to the string_content of that Paragraph;
\* the tip stays, and no other field of any node changes: not the open
\* nodes, not the shape of the tree, not a last_line_blank flag.
LazyContinuationChangesTextOnly ==
  [][(/\ line_number' = line_number + 1
      /\ nodes[tip].t = "Paragraph"
      /\ ev'.failed
      /\ ~blank'
      /\ NoStartFired(ev'))
     =>
     (/\ tip' = tip
      /\ RemainingText' # <<>>
      /\ RemainingText'[1] \notin WhiteSpace
      /\ nodes' = [nodes EXCEPT ![tip].string_content =
                     @ \o RemainingText' \o <<"\n">>])]_vars

\* A line that is a lazy continuation, indented: the block quote around the
\* paragraph has failed to continue, and the paragraph holds two lines.
LazyLineTaken ==
  /\ AfterLine
  /\ ev.lazy /\ ev.failed /\ ~blank /\ NoStartFired(ev)
  /\ offset > 0
  /\ nodes[tip].t = "Paragraph" /\ nodes[tip].is_open
  /\ nodes[last_matched_container].t = "Document"
  /\ Len(SelectSeq(nodes[tip].string_content, LAMBDA c : c = "\n")) = 2

\* ------------------------------------------------------------------------
\* C6
\* ------------------------------------------------------------------------

\* r is one or more of the character c, and then spaces only.
LineOf(c, r) ==
  \E k \in 1..Len(r) :
    /\ \A i \in 1..k : r[i] = c
    /\ \A i \in (k + 1)..Len(r) : r[i] = " "

\* The children of a parent, the Paragraph p replaced by h.
Replaced(children, p, h) ==
  [i \in 1..Len(children) |-> IF children[i] = p THEN h ELSE children[i]]

\* The call of incorporate_line that a step makes has matched the Paragraph p
\* as its container, and what it has found after the markers of the blocks
\* above is a line of the character c, indented by less than CODE_INDENT.
UnderlineOf(c, p) ==
  /\ line_number' = line_number + 1
  /\ p = last_matched_container'
  /\ nodes[p].t = "Paragraph"
  /\ Len(ev'.iters) >= 1
  /\ ~ev'.iters[1].indented
  /\ LineOf(c, ev'.iters[1].rest)

\* The Heading of the level stands where the Paragraph p stood.
HeadingInPlaceOf(p, level) ==
  LET h == tip'
      parent == nodes[p].parent
  IN /\ h = Len(nodes) + 1
     /\ Len(nodes') = Len(nodes) + 1
     /\ nodes'[h].t = "Heading"
     /\ nodes'[h].level = level
     /\ nodes'[h].string_content = nodes[p].string_content
     /\ nodes'[h].parent = parent
     /\ nodes'[parent].children = Replaced(nodes[parent].children, p, h)
     /\ Len(nodes'[parent].children) = Len(nodes[parent].children)
     /\ \A n \in 1..Len(nodes') :
          \A i \in 1..Len(nodes'[n].children) : nodes'[n].children[i] # p
     /\ Doc \notin AncestorsOrSelf(nodes', p)

\* C6: the setext rule replaces the paragraph in place.  When a line of '='
\* or of '-' follows a Paragraph that the line has matched as its container,
\* then after the line a Heading, of level 1 for '=' and of level 2 for '-',
\* with the string_content the paragraph had, stands where the paragraph
\* stood among its siblings; the paragraph is out of the tree, the parent
\* has as many children as before, and the tip is the heading.
SetextReplacesParagraphInPlace ==
  [][\A p \in Blocks :
       /\ UnderlineOf("=", p) => HeadingInPlaceOf(p, 1)
       /\ UnderlineOf("-", p) => HeadingInPlaceOf(p, 2)]_vars

\* A paragraph of two lines that is not the first child of its parent has
\* become a Heading of level 1.
SetextHeadingMade ==
  /\ AfterLine
  /\ ev.setext # NoNode
  /\ nodes[tip].t = "Heading"
  /\ nodes[tip].level = 1
  /\ Len(SelectSeq(nodes[tip].string_content, LAMBDA c : c = "\n")) = 2
  /\ Len(nodes[nodes[tip].parent].children) = 2
  /\ nodes[nodes[tip].parent].children[2] = tip

\* ------------------------------------------------------------------------
\* C7
\* ------------------------------------------------------------------------

\* The order of the claim.
ClaimedOrder ==
  <<"block_quote", "atx_heading", "fenced_code_block", "html_block",
    "setext_heading", "thematic_break", "list_item", "indented_code_block">>

\* The first six block starts look at the line and at the type of the
\* container only: the start named method matches in the pass it of the loop.
WouldMatch(method, it) ==
  /\ ~it.indented
  /\ CASE method = "block_quote" -> peek(it.rest, 0) = ">"
       [] method = "atx_heading" -> reATXHeadingMarker(it.rest) > 0
       [] method = "fenced_code_block" -> reCodeFence(it.rest) > 0
       [] method = "html_block" ->
            /\ peek(it.rest, 0) = "<"
            /\ \E block_type \in 1..7 :
                 /\ reHtmlBlockOpen(block_type, it.rest)
                 /\ (block_type < 7 \/ it.ctype # "Paragraph")
       [] method = "setext_heading" ->
            it.ctype = "Paragraph" /\ reSetextHeadingLine(it.rest)
       [] method = "thematic_break" -> reThematicBreak(it.rest)

\* The pass it has taken the first of the first six starts that matches.
FirstMatchWins(it) ==
  \A k \in 1..6 :
    (/\ WouldMatch(ClaimedOrder[k], it)
     /\ \A j \in 1..(k - 1) : ~WouldMatch(ClaimedOrder[j], it))
    => it.m = ClaimedOrder[k]

\* The line r begins as a bullet list marker: the marker character, and then
\* a space, a tab or the end of the line.
BeginsAsBullet(r) ==
  /\ peek(r, 0) \in {"*", "+", "-"}
  /\ peek(r, 1) \in {None, " ", "\t"}

\* The step has made a block of the type as its last block, and it is the tip.
NewTip(type) ==
  /\ tip' = Len(nodes')
  /\ tip' > Len(nodes)
  /\ nodes'[tip'].t = type

\* C7: the block starts are tried in the order block quote, ATX heading,
\* fenced code, HTML block, setext heading, thematic break, list item,
\* indented code, and the first that matches wins.  A line, not indented,
\* that is a thematic break and begins as a bullet list marker ('- - -',
\* '* * *') opens a ThematicBreak and no List.  A line of three or more '-'
\* turns the paragraph into a Heading of level 2 when the container the line
\* has matched is a Paragraph, and opens a ThematicBreak when it is not; so
\* too when the tip was a paragraph that the line could only have continued
\* lazily, and that paragraph is then closed.
FirstStartInOrderWins ==
  [][line_number' = line_number + 1 =>
       \A i \in 1..Len(ev'.iters) :
         LET it == ev'.iters[i]
         IN /\ FirstMatchWins(it)
            /\ (~it.indented /\ reThematicBreak(it.rest)
                  /\ BeginsAsBullet(it.rest))
               => (it.m = "thematic_break" /\ NewTip("ThematicBreak"))
            /\ (~it.indented /\ Len(it.rest) >= 3 /\ LineOf("-", it.rest))
               => IF it.ctype = "Paragraph"
                  THEN /\ it.m = "setext_heading"
                       /\ NewTip("Heading")
                       /\ nodes'[tip'].level = 2
                  ELSE /\ it.m = "thematic_break"
                       /\ NewTip("ThematicBreak")
                       /\ nodes[tip].t = "Paragraph" =>
                            /\ nodes'[tip].t = "Paragraph"
                            /\ ~nodes'[tip].is_open]_vars

\* A line of '-' after a paragraph in a block quote that the line does not
\* continue: the paragraph is closed and a ThematicBreak is the tip.
BreakAfterLazyParagraph ==
  /\ AfterLine
  /\ line_number = 2
  /\ ev.failed
  /\ Len(ev.iters) = 1
  /\ ev.iters[1].rest = <<"-", "-", "-">>
  /\ ev.iters[1].m = "thematic_break"
  /\ nodes[3].t = "Paragraph" /\ ~nodes[3].is_open
  /\ nodes[nodes[3].parent].t = "BlockQuote"
  /\ nodes[tip].t = "ThematicBreak"
  /\ nodes[tip].parent = Doc

\* ------------------------------------------------------------------------
\* C8
\* ------------------------------------------------------------------------

\* The line with U+FFFD for every NUL.
NulsSubstituted(line) ==
  [i \in 1..Len(line) |-> IF line[i] = "NUL" THEN "FFFD" ELSE line[i]]

\* The line without its leading spaces, up to k of them.
WithoutSpaces(line, k) ==
  LET spaces == RunLen(line, 0, {" "})
  IN Slice(line, IF spaces < k THEN spaces ELSE k)

\* The lines first..last of the input, NULs substituted, up to k leading
\* spaces of each dropped, each with a newline after it.
RECURSIVE SourceText(_, _, _)
SourceText(first, last, k) ==
  IF first > last THEN <<>>
  ELSE WithoutSpaces(NulsSubstituted(input[first]), k) \o <<"\n">>
         \o SourceText(first + 1, last, k)

\* The fenced code blocks of the tree that the last step has finalized.
FencedJustClosed ==
  {b \in Blocks :
     /\ InTree(b)
     /\ nodes[b].t = "CodeBlock"
     /\ nodes[b].is_fenced
     /\ \E i \in 1..Len(ev.closed) : ev.closed[i] = b}

\* The last line of a code block finalized by the last step: the last line
\* of the input when parse has finalized it at the end, the line before the
\* current one (which is the closing fence, or has closed a block around the
\* code block) when incorporate_line has.
LastLineOf(b) == IF pc = "done" THEN line_number ELSE line_number - 1

\* C8, as the spec has it: the literal of every fenced CodeBlock is the exact
\* source text between the line of its opening fence and the line of its
\* closing fence (or the end of the input), each line with a newline after
\* it and NULs substituted; no character of a line between the fences is
\* dropped or added.
FencedLiteralIsExactSource ==
  \A b \in FencedJustClosed :
    nodes[b].literal = SourceText(nodes[b].sourcepos[1][1] + 1, LastLineOf(b), 0)

\* C8, amended: the literal of a fenced CodeBlock that is a child of the
\* Document is the source text between the line of its opening fence and
\* the line of its closing fence (or the end of the input), each line with
\* NULs substituted, without its leading spaces up to fence_offset of them,
\* and with a newline after it.
FencedLiteralIsSourceLessFenceOffset ==
  \A b \in FencedJustClosed :
    nodes[b].parent = Doc =>
      nodes[b].literal =
        SourceText(nodes[b].sourcepos[1][1] + 1, LastLineOf(b),
                   nodes[b].fence_offset)

\* A closing fence has closed a code block of the Document whose fence is
\* indented by one space, and whose literal has lost the space of a line.
IndentedFenceClosed ==
  /\ AfterLine
  /\ ev.ret2
  /\ \E b \in FencedJustClosed :
       /\ nodes[b].parent = Doc
       /\ nodes[b].fence_offset = 1
       /\ nodes[b].sourcepos[1][1] = 1
       /\ line_number = 3
       /\ input[2] = <<" ", "x">>
       /\ nodes[b].literal = <<"x", "\n">>

\* ------------------------------------------------------------------------
\* C9
\* ------------------------------------------------------------------------

\* The block b has a sibling after it.
HasNext(b) ==
  LET siblings == nodes[nodes[b].parent].children
  IN \E i \in 1..(Len(siblings) - 1) : siblings[i] = b

\* The children of the block b.
ChildrenOf(b) == {nodes[b].children[i] : i \in 1..Len(nodes[b].children)}

\* The block b ends with a blank line: its flag says so, or b is a List or an
\* Item and its last child ends with a blank line.
RECURSIVE EndsWithBlankLine(_)
EndsWithBlankLine(b) ==
  \/ nodes[b].last_line_blank
  \/ /\ nodes[b].t \in {"List", "Item"}
     /\ nodes[b].children # <<>>
     /\ EndsWithBlankLine(nodes[b].children[Len(nodes[b].children)])

\* The condition of the claim for a loose list.
LooseList(list) ==
  \E item \in ChildrenOf(list) :
    \/ EndsWithBlankLine(item) /\ HasNext(item)
    \/ \E child \in ChildrenOf(item) :
         EndsWithBlankLine(child) /\ (HasNext(item) \/ HasNext(child))

\* The item is the next item after another of its List, and the line before
\* its first line is a blank line that is not in a fenced code block.
AfterOneBlankLine(item) ==
  LET siblings == nodes[nodes[item].parent].children
      line == nodes[item].sourcepos[1][1]
  IN /\ \E i \in 2..Len(siblings) : siblings[i] = item
     /\ line >= 2
     /\ is_blank(input[line - 1])
     /\ ~in_fence[line - 1]

\* C9: a List that has been finalized has tight false if and only if some
\* item with an item after it ends with a blank line, or some child of an
\* item ends with a blank line while the item or the child has a sibling
\* after it; otherwise tight is true, as it is from the start.  And a list
\* in which a blank line stands between two items one after the other is
\* loose.
TightUnlessBlankLineInside ==
  \A list \in Lists :
    ~nodes[list].is_open =>
      /\ nodes[list].list_data.tight = ~LooseList(list)
      /\ (\E item \in ChildrenOf(list) : AfterOneBlankLine(item))
           => nodes[list].list_data.tight = FALSE

\* parse has returned a loose list of two items with one blank line between
\* them.
LooseListOfTwoItems ==
  /\ pc = "done"
  /\ line_number = 3
  /\ is_blank(input[2])
  /\ \E list \in Lists :
       /\ Len(nodes[list].children) = 2
       /\ nodes[nodes[list].children[1]].sourcepos[1][1] = 1
       /\ nodes[nodes[list].children[2]].sourcepos[1][1] = 3
       /\ nodes[list].list_data.tight = FALSE

\* ------------------------------------------------------------------------
\* C10
\* ------------------------------------------------------------------------

StartLoopAdvances ==
  \A i \in 1..(Len(ev.iters) - 1) : ev.iters[i].at < ev.iters[i + 1].at

\* The blocks the last loop of parse has finalized are all different and
\* the Document is the last of them.
CloseOutClimbs ==
  pc = "done" =>
    /\ \A i, j \in 1..Len(ev.closed) : ev.closed[i] = ev.closed[j] => i = j
    /\ ev.closed # <<>>
    /\ ev.closed[Len(ev.closed)] = Doc

\* parse has returned: the tip is None and no node of the tree is open.
ReturnedAllClosed ==
  pc = "done" =>
    /\ tip = NoNode
    /\ \A n \in Blocks : InTree(n) => ~nodes[n].is_open

\* C11: parse returns for every input; the loop over the block starts moves
\* forward on the line at each pass and the last loop climbs from the tip to
\* the Document; when parse has returned the tip is None and every node of
\* the tree is closed.
ParseTerminatesAllClosed ==
  /\ <>(pc = "done")
  /\ [](StartLoopAdvances /\ CloseOutClimbs /\ ReturnedAllClosed)
  /\ [][ParseStep]_vars

\* parse has returned from an input whose last line opened two containers
\* in one call, and its last loop has closed five blocks.
ReturnedFromNestedContainers ==
  /\ pc = "done"
  /\ Len(ev.closed) >= 5
  /\ input # <<>>
  /\ input[Len(input)] = <<">", " ", "-", " ", "a">>

\* ------------------------------------------------------------------------
\* C12
\* ------------------------------------------------------------------------

\* C12: parse raises no exception: every continue_ answers 0, 1 or 2, the
\* loop of add_child stops at a block that can contain the new child before
\* it has left the Document behind, and a fenced CodeBlock that is finalized
\* has a newline in its string_content.
ParseNeverRaises == pc # "raised" /\ ~ev.raised

\* An item has been added under a list that add_child reached by closing
\* a paragraph and an item, and a fenced code block in an item has been
\* finalized by a line that ended the item.
WalkedUpAndFenceFinalized ==
  /\ pc = "lines"
  /\ input = << <<"-", " ", "a">>, <<" ", " ", Backtick, Backtick, Backtick>>,
                <<"-", " ", "a">> >>
  /\ \E b \in Blocks :
       /\ InTree(b)
       /\ nodes[b].t = "CodeBlock"
       /\ nodes[b].is_fenced
       /\ ~nodes[b].is_open
       /\ nodes[b].literal = <<>>
  /\ nodes[tip].t = "Paragraph"
  /\ Len(nodes[nodes[nodes[tip].parent].parent].children) = 2

\* ------------------------------------------------------------------------
\* C13
\* ------------------------------------------------------------------------

\* C13: a step of parse that finalizes a Paragraph unlinks it exactly when
\* finalize has taken something from the front of its string_content and
\* what remains is blank; the tip that this call of finalize leaves is then
\* the parent the paragraph had.
ParagraphRemovedIffOnlyReferences ==
  [][\A i \in 1..Len(ev'.closed) :
       LET p == ev'.closed[i]
       IN nodes'[p].t = "Paragraph" =>
            /\ p \in 1..Len(nodes)
            /\ LET before == nodes[p].string_content
                   after == nodes'[p].string_content
                   consumed == after # before
                   removed == nodes'[p].parent = NoNode
               IN /\ removed <=> (consumed /\ is_blank(after))
                  /\ ~consumed => ~removed
                  /\ removed => ev'.tips[i] = nodes[p].parent]_vars

\* parse has returned from a definition, a blank line and a line of text:
\* the paragraph of the definition is out of the tree and the paragraph of
\* the text is the only child of the Document.
DefinitionParagraphRemoved ==
  /\ pc = "done"
  /\ input = << <<"[", "a", "]", ":", " ", "/", "u">>, <<>>,
                <<"[", "a", "]">> >>
  /\ refmap = {<<"a">>}
  /\ nodes[2].t = "Paragraph"
  /\ nodes[2].parent = NoNode
  /\ is_blank(nodes[2].string_content)
  /\ nodes[Doc].children = <<3>>
  /\ nodes[3].string_content = <<"[", "a", "]", "\n">>

\* ------------------------------------------------------------------------
\* C14
\* ------------------------------------------------------------------------

\* C14: whatever the Parser has parsed before, the tree, the tip and the
\* reference map that parse makes of an input are those that a new Parser
\* makes of it, line after line and when it returns.
ReusedParserParsesAsNew ==
  pc \in {"lines", "done"} =>
    LET new == parse(input, pc = "done")
    IN /\ nodes = new.nodes
       /\ tip = new.tip
       /\ refmap = new.refmap

\* parse has returned from a line in a block quote and its lazy
\* continuation, on a Parser that an earlier call of parse had left with
\* blank true.
ReturnedOnParserLeftBlank ==
  /\ pc = "done"
  /\ left.blank
  /\ ~all_closed
  /\ input = << <<">", " ", "-", " ", "a">>, <<"a">> >>
  /\ Len(nodes) = 5
  /\ nodes[5].string_content = <<"a", "\n", "a", "\n">>

\* ------------------------------------------------------------------------
\* C15
\* ------------------------------------------------------------------------

\* The string has a NUL (None has none).
HasNul(str) == \E i \in 1..Len(str) : str[i] = NUL

\* C15: no NUL of the input reaches the tree: the line the Parser holds has
\* U+FFFD in the place of every NUL, and no string_content, literal or info
\* of a node has a NUL.
NoNulInTree ==
  /\ ~HasNul(current_line)
  /\ line_number > 0 => current_line = NulsSubstituted(input[line_number])
  /\ \A b \in 1..Len(nodes) :
       /\ ~HasNul(nodes[b].string_content)
       /\ ~HasNul(nodes[b].literal)
       /\ ~HasNul(nodes[b].info)

\* parse has returned from a fenced code block with a line of two NULs, and
\* the literal of the block has U+FFFD for each of them.
NulLineInFence ==
  /\ pc = "done"
  /\ input = << <<Backtick, Backtick, Backtick>>, <<NUL, "x", NUL>> >>
  /\ nodes[2].t = "CodeBlock"
  /\ nodes[2].literal = <<FFFD, "x", FFFD, "\n">>

\* ------------------------------------------------------------------------
\* C16
\* ------------------------------------------------------------------------

\* C16: an open Item without children does not continue on a blank line,
\* whatever whitespace the line has: after incorporate_line of a blank line
\* every Item that was open and empty is closed.
EmptyItemClosedByBlankLine ==
  [][(line_number' = line_number + 1 /\ is_blank(input'[line_number'])) =>
       \A b \in 1..Len(nodes) :
         (/\ nodes[b].t = "Item"
          /\ nodes[b].is_open
          /\ nodes[b].children = <<>>) => ~nodes'[b].is_open]_vars

\* ------------------------------------------------------------------------
\* C17
\* ------------------------------------------------------------------------

\* The line has at most three spaces, then length or more characters
\* fence_char, then only spaces.
IsClosingFence(line, fence_char, length) ==
  LET spaces == RunLen(line, 0, {" "})
      run == RunLen(line, spaces, {fence_char})
  IN /\ spaces <= 3
     /\ run >= length
     /\ OnlyFrom(line, spaces + run, {" "})

\* The line ends with length or more characters fence_char and then only
\* spaces.
EndsWithFence(line, fence_char, length) ==
  LET body == Prefix(line, Len(line) - TrailLen(line, {" "}))
  IN TrailLen(body, {fence_char}) >= length

\* after is before, then some end of the line, then a newline.
LineAppended(before, after, line) ==
  /\ Len(after) > Len(before)
  /\ Prefix(after, Len(before)) = before
  /\ after[Len(after)] = "\n"
  /\ \E from \in 0..Len(line) :
       Slice(line, from) = SubSeq(after, Len(before) + 1, Len(after) - 1)

\* C17: a line finalizes an open fenced CodeBlock only if it is a closing
\* fence of the block (at most three columns of indentation, fence_length
\* or more of its fence_char, then only spaces), which adds no content, or
\* if some enclosing block does not continue; every other line, blank or a
\* fence of the other character or of a lesser length, is appended to the
\* block and opens no block.  Apart from that only the end of the input
\* finalizes the block.
FencedCodeBlockClosedOnlyByItsFence ==
  [][\A b \in 1..Len(nodes) :
       (/\ nodes[b].t = "CodeBlock"
        /\ nodes[b].is_fenced
        /\ nodes[b].is_open
        /\ pc = "lines") =>
         IF line_number' = line_number + 1
         THEN LET line == input'[line_number']
                  c == nodes[b]
              IN /\ ~nodes'[b].is_open <=> (ev'.ret2 \/ ev'.failed)
                 /\ ~(ev'.ret2 /\ ev'.failed)
                 /\ ev'.ret2 =>
                      /\ EndsWithFence(line, c.fence_char, c.fence_length)
                      /\ nodes'[b].literal # NoneStr
                      /\ Len(nodes'[b].literal) < Len(c.string_content)
                      /\ Len(nodes') = Len(nodes)
                      /\ tip' = c.parent
                 /\ c.parent = Doc =>
                      (ev'.ret2 <=>
                         IsClosingFence(line, c.fence_char, c.fence_length))
                 /\ nodes'[b].is_open =>
                      /\ LineAppended(c.string_content,
                                      nodes'[b].string_content,
                                      NulsSubstituted(line))
                      /\ Len(nodes') = Len(nodes)
                      /\ tip' = b
         ELSE pc' = "done" /\ ~nodes'[b].is_open]_vars

\* A fenced code block of four backticks has taken a fence of three
\* backticks, a fence of tildes and a blank line as its content, and a line
\* of four backticks has closed it.
FenceClosedAfterOtherFences ==
  /\ pc = "lines"
  /\ ev.ret2
  /\ Len(input) = 4
  /\ input[1] = <<Backtick, Backtick, Backtick, Backtick>>
  /\ input[4] = <<Backtick, Backtick, Backtick, Backtick>>
  /\ nodes[2].literal \in
       { <<Backtick, Backtick, Backtick, "\n", "~", "~", "~", "\n">>,
         <<"~", "~", "~", "\n", "\n">> }

\* ------------------------------------------------------------------------
\* C18
\* ------------------------------------------------------------------------

\* C18: a blank line added to an open fenced CodeBlock leaves
\* last_line_blank false on the block and on all its ancestors, closes none
\* of them and leaves tight of every List as it was; and when all the lines
\* of the input that are blank, block quote markers aside, were lines of
\* fenced code blocks, every List of the tree that parse returns is tight.
BlankLinesInFenceAreNotBlank ==
  [][LET in_fenced_block ==
           /\ nodes'[tip'].t = "CodeBlock"
           /\ nodes'[tip'].is_fenced
           /\ tip' = tip
           /\ \A a \in AncestorsOrSelf(nodes', tip') :
                /\ ~nodes'[a].last_line_blank
                /\ nodes'[a].is_open
           /\ \A l \in 1..Len(nodes) :
                (nodes[l].t = "List") =>
                  /\ nodes'[l].is_open = nodes[l].is_open
                  /\ nodes'[l].list_data.tight = nodes[l].list_data.tight
         all_tight ==
           \A l \in 1..Len(nodes') :
             (nodes'[l].t = "List") => nodes'[l].list_data.tight
     IN /\ (/\ line_number' = line_number + 1
            /\ is_blank(input'[line_number'])
            /\ in_fence'[line_number']) => in_fenced_block
        /\ (/\ pc' = "done"
            /\ \A i \in 1..Len(input') :
                 OnlyFrom(input'[i], 0, WhiteSpace \cup {">"})
                   => in_fence'[i]) => all_tight]_vars

\* A list of two items, the first with a fenced code block that has a blank
\* line, has been returned tight.
BlankLineInFenceOfItem ==
  /\ pc = "done"
  /\ input = << <<"-">>, <<" ", " ", Backtick, Backtick, Backtick>>, <<>>,
                <<"-", " ", "a">> >>
  /\ nodes[2].t = "List"
  /\ nodes[2].list_data.tight
  /\ Len(nodes[2].children) = 2
  /\ nodes[4].literal = <<"\n">>

\* ------------------------------------------------------------------------
\* C19
\* ------------------------------------------------------------------------

\* The line without a block quote marker: up to three spaces, the '>' and a
\* space after it.
AfterQuoteMarker(line) ==
  LET marker == RunLen(line, 0, {" "})
  IN Slice(line, IF peek(line, marker + 1) = " " THEN marker + 2 ELSE marker + 1)

\* C19: an HtmlBlock of the types 1 to 5 that the line has reached, the line
\* that opens it among them, is finalized by the line if and only if the
\* text of the line from the offset of the block on has the close pattern of
\* the type, so a blank line leaves it open; an HtmlBlock of the types 6 and
\* 7 is finalized by no line that it takes, and the first blank line closes
\* it.  A line that an enclosing block does not continue on closes the
\* HtmlBlock, and so does the end of the input.
HtmlBlockClosedByPatternOrBlank ==
  [][\A b \in 1..Len(nodes') :
       (/\ nodes'[b].t = "HtmlBlock"
        /\ pc = "lines"
        /\ (b > Len(nodes) \/ nodes[b].is_open)) =>
         IF line_number' = line_number + 1
         THEN LET line == input'[line_number']
                  type == nodes'[b].html_block_type
                  parent == nodes'[b].parent
                  new == b > Len(nodes)
                  reached == new \/ ~ev'.failed
                  text == IF parent = Doc THEN line ELSE AfterQuoteMarker(line)
              IN /\ ~reached => ~nodes'[b].is_open
                 /\ (reached /\ type \in 1..5) =>
                      (~nodes'[b].is_open <=> reHtmlBlockClose(type, text))
                 /\ (reached /\ type \in 6..7) => nodes'[b].is_open
                 /\ (~new /\ parent = Doc) =>
                      (ev'.failed <=> (type \in 6..7 /\ is_blank(line)))
                 /\ parent # Doc =>
                      (nodes'[parent].t = "BlockQuote"
                         /\ nodes'[parent].parent = Doc)
         ELSE pc' = "done" /\ ~nodes'[b].is_open]_vars

\* A comment (type 2) has stayed open across a blank line and the line with
\* '-->' has closed it.
CommentClosedAfterBlankLine ==
  /\ pc = "lines"
  /\ input = << <<"<", "!", "-", "-">>, <<>>, <<"-", "-", ">">> >>
  /\ nodes[2].t = "HtmlBlock"
  /\ nodes[2].html_block_type = 2
  /\ ~nodes[2].is_open
  /\ nodes[2].literal = <<"<", "!", "-", "-", "\n", "\n", "-", "-", ">">>

\* ------------------------------------------------------------------------
\* C20
\* ------------------------------------------------------------------------

\* The method indented_code_block has matched only with a tip that was no
\* Paragraph, and every indented CodeBlock made by the line was opened by
\* that method.
NoIndentedCodeAtParagraph ==
  /\ \A i \in 1..Len(ev'.iters) :
       ev'.iters[i].m = "indented_code_block" =>
         ev'.iters[i].indented /\ ev'.iters[i].tip # "Paragraph"
  /\ \A b \in (Len(nodes) + 1)..Len(nodes') :
       (nodes'[b].t = "CodeBlock" /\ ~nodes'[b].is_fenced) =>
         \E i \in 1..Len(ev'.iters) : ev'.iters[i].m = "indented_code_block"

\* The line, which is not blank, has come to the block starts with four or
\* more columns of indentation and an open Paragraph at the tip.
IndentedAtParagraph ==
  /\ line_number' = line_number + 1
  /\ nodes[tip].t = "Paragraph"
  /\ nodes[tip].is_open
  /\ ~is_blank(input'[line_number'])
  /\ ev'.iters # <<>>
  /\ ev'.iters[1].indented
  /\ ev'.iters[1].tip = "Paragraph"

\* The line has been added to the paragraph at the tip and has made no block.
JoinedParagraph ==
  /\ tip' = tip
  /\ Len(nodes') = Len(nodes)
  /\ nodes'[tip].is_open
  /\ nodes'[tip].string_content =
       nodes[tip].string_content \o ev'.iters[1].rest \o <<"\n">>

\* C20, as the spec has it: no line opens an indented CodeBlock while the
\* tip is a Paragraph, and a line that is not blank and has four or more
\* columns of indentation after a line of a paragraph is added to that
\* paragraph, as a lazy continuation too.
IndentedLineJoinsParagraph ==
  [][/\ line_number' = line_number + 1 => NoIndentedCodeAtParagraph
     /\ IndentedAtParagraph => JoinedParagraph]_vars

\* C20, amended: no line opens an indented CodeBlock while the tip is a
\* Paragraph; a line that is not blank and has four or more columns of
\* indentation after a line of a paragraph is added to that paragraph, as a
\* lazy continuation too, unless the last matched container is a List and
\* the line begins with a list marker: then list_item opens an Item, and
\* the paragraph is closed.
IndentedLineJoinsParagraphOrOpensItem ==
  [][/\ line_number' = line_number + 1 => NoIndentedCodeAtParagraph
     /\ IndentedAtParagraph =>
          IF ev'.iters[1].ctype = "List" /\ ev'.iters[1].m = "list_item"
          THEN /\ ~nodes'[tip].is_open
               /\ Len(nodes') > Len(nodes)
               /\ nodes'[Len(nodes) + 1].t = "Item"
               /\ \A b \in (Len(nodes) + 1)..Len(nodes') :
                    ~(nodes'[b].t = "CodeBlock" /\ ~nodes'[b].is_fenced)
          ELSE /\ JoinedParagraph
               /\ ev'.iters[1].m = "none"]_vars

\* A line of four spaces and a letter has been added, as a lazy
\* continuation, to the paragraph of a block quote.
IndentedLazyContinuation ==
  /\ pc = "lines"
  /\ input = << <<">", " ", "a">>, <<" ", " ", " ", " ", "a">> >>
  /\ ev.lazy
  /\ ev.iters[1].indented
  /\ nodes[tip].t = "Paragraph"
  /\ nodes[tip].string_content = <<"a", "\n", "a", "\n">>

\* ------------------------------------------------------------------------
\* C21
\* ------------------------------------------------------------------------

\* The two list_data have the same type, delimiter and bullet_char.
SameMarker(list_data, item_data) ==
  /\ list_data.type = item_data.type
  /\ list_data.delimiter = item_data.delimiter
  /\ list_data.bullet_char = item_data.bullet_char

\* The node after n among the children of its parent, NoNode if none.
NextSibling(h, n) ==
  LET kids == h[h[n].parent].children
      at == CHOOSE k \in 1..Len(kids) : kids[k] = n
  IN IF at < Len(kids) THEN kids[at + 1] ELSE NoNode

\* Every Item of the tree is a child of a List that it matches.
ItemsMatchTheirList ==
  \A b \in 1..Len(nodes) :
    (nodes[b].t = "Item" /\ InTree(b)) =>
      /\ nodes[nodes[b].parent].t = "List"
      /\ SameMarker(nodes[nodes[b].parent].list_data, nodes[b].list_data)

\* The line has added an Item to the List l, which the Item matches.
SiblingItemAdded(l) ==
  LET kids == nodes'[l].children
      item == kids[Len(kids)]
  IN /\ Len(kids) = Len(nodes[l].children) + 1
     /\ item > Len(nodes)
     /\ nodes'[item].t = "Item"
     /\ SameMarker(nodes[l].list_data, nodes'[item].list_data)
     /\ nodes'[l].list_data = nodes[l].list_data

\* The line has finalized the List l and has opened, as the sibling that
\* follows l, a List which does not match l, with an Item that matches it.
FollowingListOpened(l) ==
  LET list == NextSibling(nodes', l)
  IN /\ nodes'[l].children = nodes[l].children
     /\ ~nodes'[l].is_open
     /\ list # NoNode
     /\ list > Len(nodes)
     /\ nodes'[list].t = "List"
     /\ ~SameMarker(nodes[l].list_data, nodes'[list].list_data)
     /\ nodes'[list].children # <<>>
     /\ nodes'[nodes'[list].children[1]].list_data = nodes'[list].list_data

\* C21: every Item is the child of a List and agrees with the list_data of
\* that List on type, delimiter and bullet_char; and whenever list_item
\* matches with an open List as the container, either the marker matches
\* the List and the line adds a sibling Item to it, or the marker differs
\* and the line finalizes the List and opens a new List as the sibling that
\* follows it.
ItemsAgreeWithTheirList ==
  [][/\ ItemsMatchTheirList'
     /\ \A i \in 1..Len(ev'.iters) :
          (/\ line_number' = line_number + 1
           /\ ev'.iters[i].m = "list_item"
           /\ ev'.iters[i].ctype = "List"
           /\ ev'.iters[i].container <= Len(nodes)
           /\ nodes[ev'.iters[i].container].is_open) =>
            LET l == ev'.iters[i].container
            IN /\ SiblingItemAdded(l) \/ FollowingListOpened(l)
               /\ ~(SiblingItemAdded(l) /\ FollowingListOpened(l))]_vars

\* A bullet list with '-' has taken a second item, and an item with '*' has
\* closed it and opened a second list.
SecondListAfterOtherBullet ==
  /\ pc = "lines"
  /\ input = << <<"-", " ", "a">>, <<"-", " ", "a">>, <<"*", " ", "a">> >>
  /\ nodes[2].t = "List"
  /\ Len(nodes[2].children) = 2
  /\ ~nodes[2].is_open
  /\ nodes[Doc].children = <<2, 7>>
  /\ nodes[7].t = "List"
  /\ nodes[7].list_data.bullet_char = "*"

\* ------------------------------------------------------------------------
\* C22
\* ------------------------------------------------------------------------

\* C22: Parser.finalize is called at most once on each node, the calls of
\* the close-out of parse among them.
FinalizedAtMostOnce == \A b \in 1..Len(nodes) : nodes[b].nfin <= 1

\* ------------------------------------------------------------------------
\* C23
\* ------------------------------------------------------------------------

\* The column after the string, which begins at the margin: a tab reaches
\* to the next multiple of 4.
RECURSIVE WidthOf(_)
WidthOf(str) ==
  IF str = <<>> THEN 0
  ELSE LET before == WidthOf(SubSeq(str, 1, Len(str) - 1))
       IN IF str[Len(str)] = "\t" THEN before + (4 - (before % 4))
          ELSE before + 1

\* The Parser at the first non-space character of the line ln, with nothing
\* of the line consumed.
AtLineStart(ln) ==
  find_next_nonspace([Parser EXCEPT !.current_line = ln, !.offset = 0,
                                    !.column = 0])

\* C23: column is the width, tabs expanded, of the part of the line before
\* offset; and on every line that continues a block quote,
\* BlockQuote.continue_ and the block_quote matcher leave the same offset
\* and the same column.
ColumnIsWidthOfConsumedPrefix ==
  /\ column = WidthOf(Prefix(current_line, offset))
  /\ \A ln \in corpus :
       LET s == AtLineStart(ln)
           continued == BlockQuote_continue(s, tip)
           started == block_quote(s, tip)
       IN continued[1] = 0 =>
            /\ started.res = 1
            /\ started.s.offset = continued[2].offset
            /\ started.s.column = continued[2].column

\* ------------------------------------------------------------------------
\* C24
\* ------------------------------------------------------------------------

\* The text of the lines, each with the line ending after it.
RECURSIVE Terminated(_, _)
Terminated(lines, ending) ==
  IF lines = <<>> THEN <<>>
  ELSE lines[1] \o ending \o Terminated(Tail(lines), ending)

\* The text of the lines with the line ending between them.
Separated(lines, ending) ==
  Prefix(Terminated(lines, ending),
         Len(Terminated(lines, ending)) - Len(ending))

\* C24, as the spec has it: the tree that parse returns for the lines is
\* that of the lines ending in '\n', in '\r\n' and in '\r' alike, the last
\* line included.
SameTreeForEveryLineEnding ==
  pc = "done" =>
    /\ parse_input(Terminated(input, <<"\n">>)).nodes = nodes
    /\ parse_input(Terminated(input, <<"\r", "\n">>)).nodes = nodes
    /\ parse_input(Terminated(input, <<"\r">>)).nodes = nodes

\* C24, amended: the tree is that of the lines ending in '\n' and in '\r\n'
\* alike, that of the lines with '\r' between them and, if the last line
\* is not empty, that of the lines with '\n' between them; with a '\r'
\* after the last line too, parse incorporates one more line, which is
\* empty, and the tree is another one.
SameTreeUnlessFinalCarriageReturn ==
  pc = "done" =>
    /\ parse_input(Terminated(input, <<"\n">>)).nodes = nodes
    /\ parse_input(Terminated(input, <<"\r", "\n">>)).nodes = nodes
    /\ parse_input(Separated(input, <<"\r">>)).nodes = nodes
    /\ input[Len(input)] # <<>> =>
         parse_input(Separated(input, <<"\n">>)).nodes = nodes
    /\ LET tree == parse_input(Terminated(input, <<"\r">>)).nodes
       IN /\ tree = parse(Append(input, <<>>), TRUE).nodes
          /\ tree # nodes

\* parse has returned a fenced code block with the literal of one line; for
\* the same two lines ending in '\r' the literal has an empty line more.
FinalCarriageReturnAddsLine ==
  /\ pc = "done"
  /\ input = << <<Backtick, Backtick, Backtick>>, <<" ", "x">> >>
  /\ nodes[2].literal = <<" ", "x", "\n">>
  /\ parse_input(Terminated(input, <<"\r">>)).nodes[2].literal =
       <<" ", "x", "\n", "\n">>

\* ------------------------------------------------------------------------
\* C25
\* ------------------------------------------------------------------------

\* C25: a block that the line finalizes by its own content, a fenced
\* CodeBlock by its closing fence or an HtmlBlock of the types 1 to 5 by the
\* close pattern, ends at the line and at the length of the line.
ClosedByLineEndsAtLineLength ==
  [][line_number' = line_number + 1 =>
       \A b \in 1..Len(nodes') :
         (/\ ~nodes'[b].is_open
          /\ b > Len(nodes) \/ nodes[b].is_open
          /\ \/ nodes'[b].t = "CodeBlock" /\ ev'.ret2
             \/ /\ nodes'[b].t = "HtmlBlock"
                /\ nodes'[b].html_block_type \in 1..5
                /\ b > Len(nodes) \/ ~ev'.failed) =>
           nodes'[b].sourcepos[2] =
             <<line_number', Len(input'[line_number'])>>]_vars

====
